---- MODULE Spec2Model ----
(***************************************************************************)
(* The record-extraction and status-reconciliation core of src/main.py:    *)
(* determine_final_status (with the staleness fallback), _parse_date and   *)
(* clean_data, and the extractor parse_setmap_from_html that feeds them.   *)
(*                                                                         *)
(* A Python str is a sequence of one-character strings; a Python value is  *)
(* a record [kind, val]; a status is one of the six status words.          *)
(***************************************************************************)
EXTENDS Integers, Sequences, FiniteSets, TLC

VARIABLES pc, html, all_status_dict, now, station, status, pos, count,
          records, idx, out, cleaned, err, arg, result, locals

vars == <<pc, html, all_status_dict, now, station, status, pos, count,
          records, idx, out, cleaned, err, arg, result, locals>>

(* ------------------------- Python values ------------------------------ *)

PyNone == [kind |-> "none", val |-> <<>>]

PyStr(s) == [kind |-> "str", val |-> s]

PyInt(n) == [kind |-> "int", val |-> <<n>>]

\* A float is kept as the decimal it was read from: mantissa * 10^exp.
PyFloat(m, e) == [kind |-> "float", val |-> <<m, e>>]

PyMap(f) == [kind |-> "map", val |-> f]

\* Python truthiness: `if x`, `not x`, `x or y`.
Truthy(x) ==
    CASE x.kind = "none" -> FALSE
      [] x.kind = "str" -> x.val # <<>>
      [] x.kind = "int" -> x.val[1] # 0
      [] x.kind = "float" -> x.val[1] # 0
      [] OTHER -> DOMAIN x.val # {}

IsStr(x) == x.kind = "str"

\* d.get(k) of a dict with str keys, kept as a record
Get(d, k) == IF k \in DOMAIN d THEN d[k] ELSE PyNone

(* ------------------------- characters and str ------------------------- *)

Uppers == <<"A","B","C","D","E","F","G","H","I","J","K","L","M",
            "N","O","P","Q","R","S","T","U","V","W","X","Y","Z">>

Lowers == <<"a","b","c","d","e","f","g","h","i","j","k","l","m",
            "n","o","p","q","r","s","t","u","v","w","x","y","z">>

Digits == <<"0","1","2","3","4","5","6","7","8","9">>

Range(f) == {f[i] : i \in DOMAIN f}

UpperSet == Range(Uppers)

LowerSet == Range(Lowers)

DigitSet == Range(Digits)

IsDigit(c) == c \in DigitSet

\* The whitespace str.strip(), str.splitlines() and the regex class \s see
\* in the texts of the model.
IsSpace(c) == c \in {" ", "\t", "\n", "\r"}

IndexIn(seq, c) == CHOOSE i \in DOMAIN seq : seq[i] = c

UpperMap == [c \in LowerSet |-> Uppers[IndexIn(Lowers, c)]]

LowerMap == [c \in UpperSet |-> Lowers[IndexIn(Uppers, c)]]

DigitMap == [c \in DigitSet |-> IndexIn(Digits, c) - 1]

\* Two letters outside ASCII that str.lower() leaves alone and str.upper()
\* turns into ASCII letters: the dotless i (U+0131) and the long s (U+017F),
\* each kept as one character of the texts of the model.
DotlessI == "U+0131"

LongS == "U+017F"

UpperChar(c) ==
    IF c \in LowerSet THEN UpperMap[c]
    ELSE IF c = DotlessI THEN "I"
    ELSE IF c = LongS THEN "S"
    ELSE c

LowerChar(c) == IF c \in UpperSet THEN LowerMap[c] ELSE c

DigitVal(c) == DigitMap[c]

\* str.upper() and str.lower()
Upper(s) == [i \in DOMAIN s |-> UpperChar(s[i])]

Lower(s) == [i \in DOMAIN s |-> LowerChar(s[i])]

\* s[i:j] with 0-based Python indices, 0 <= i, j <= len(s)
Slice(s, i, j) == IF j <= i THEN <<>> ELSE SubSeq(s, i + 1, j)

\* s.startswith(p, i), i 0-based
StartsWithAt(s, p, i) ==
    /\ i + Len(p) <= Len(s)
    /\ \A k \in 1..Len(p) : s[i + k] = p[k]

StartsWith(s, p) == StartsWithAt(s, p, 0)

EndsWith(s, p) == Len(p) <= Len(s) /\ StartsWithAt(s, p, Len(s) - Len(p))

\* `p in s`
Contains(s, p) == \E i \in 0..(Len(s) - Len(p)) : StartsWithAt(s, p, i)

\* s.find(p, i): the first 0-based index >= i where p starts, or -1
FindFrom(s, p, i) ==
    IF \E k \in i..(Len(s) - Len(p)) : StartsWithAt(s, p, k)
    THEN CHOOSE k \in i..(Len(s) - Len(p)) :
            /\ StartsWithAt(s, p, k)
            /\ \A j \in i..(k - 1) : ~StartsWithAt(s, p, j)
    ELSE -1

\* The number of leading / trailing whitespace characters of s.
LeadingSpaces(s) ==
    IF \A i \in DOMAIN s : IsSpace(s[i]) THEN Len(s)
    ELSE (CHOOSE i \in DOMAIN s :
            ~IsSpace(s[i]) /\ \A j \in 1..(i - 1) : IsSpace(s[j])) - 1

TrailingSpaces(s) ==
    IF \A i \in DOMAIN s : IsSpace(s[i]) THEN Len(s)
    ELSE Len(s) - (CHOOSE i \in DOMAIN s :
            ~IsSpace(s[i]) /\ \A j \in (i + 1)..Len(s) : IsSpace(s[j]))

\* str.strip()
Strip(s) ==
    IF LeadingSpaces(s) = Len(s) THEN <<>>
    ELSE Slice(s, LeadingSpaces(s), Len(s) - TrailingSpaces(s))

AllDigits(s) == \A i \in DOMAIN s : IsDigit(s[i])

\* int(s) of a non-empty all-digit str
RECURSIVE DigitsVal(_)
DigitsVal(s) ==
    IF s = <<>> THEN 0
    ELSE 10 * DigitsVal(SubSeq(s, 1, Len(s) - 1)) + DigitVal(s[Len(s)])

(* ------------------------- dates --------------------------------------- *)

\* The regular expressions _strptime builds for the directives %d %m %Y %H %M,
\* each matched against a whole field f.
DirDay(f) ==
    \/ Len(f) = 2 /\ f[1] = "3" /\ f[2] \in {"0", "1"}
    \/ Len(f) = 2 /\ f[1] \in {"1", "2"} /\ IsDigit(f[2])
    \/ Len(f) = 2 /\ f[1] = "0" /\ IsDigit(f[2]) /\ f[2] # "0"
    \/ Len(f) = 1 /\ IsDigit(f[1]) /\ f[1] # "0"
    \/ Len(f) = 2 /\ f[1] = " " /\ IsDigit(f[2]) /\ f[2] # "0"

DirMonth(f) ==
    \/ Len(f) = 2 /\ f[1] = "1" /\ f[2] \in {"0", "1", "2"}
    \/ Len(f) = 2 /\ f[1] = "0" /\ IsDigit(f[2]) /\ f[2] # "0"
    \/ Len(f) = 1 /\ IsDigit(f[1]) /\ f[1] # "0"

DirYear(f) == Len(f) = 4 /\ AllDigits(f)

DirHour(f) ==
    \/ Len(f) = 2 /\ f[1] = "2" /\ f[2] \in {"0", "1", "2", "3"}
    \/ Len(f) = 2 /\ f[1] \in {"0", "1"} /\ IsDigit(f[2])
    \/ Len(f) = 1 /\ IsDigit(f[1])

DirMinute(f) ==
    \/ Len(f) = 2 /\ f[1] \in {"0", "1", "2", "3", "4", "5"} /\ IsDigit(f[2])
    \/ Len(f) = 1 /\ IsDigit(f[1])

\* The length of the whitespace run of s that starts at 0-based index i.
SpaceRun(s, i) == LeadingSpaces(Slice(s, i, Len(s)))

\* The literal tail of a format: nothing for "%d/%m/%Y %H:%M", and
\* whitespace followed by UTC (the format regex ignores case) for
\* "%d/%m/%Y %H:%M UTC".
FormatTail(rest, withUTC) ==
    IF withUTC
    THEN /\ LeadingSpaces(rest) >= 1
         /\ Upper(Slice(rest, LeadingSpaces(rest), Len(rest))) = <<"U","T","C">>
    ELSE rest = <<>>

\* The number of characters the directive %M takes after the colon at
\* 0-based index p3: two when two fit, else one, else none.
MinuteLen(s, p3) ==
    IF p3 + 2 < Len(s) /\ DirMinute(Slice(s, p3 + 1, p3 + 3)) THEN 2
    ELSE IF p3 + 1 < Len(s) /\ DirMinute(Slice(s, p3 + 1, p3 + 2)) THEN 1
    ELSE 0

\* The last stage of the match: every field against its directive and the
\* tail against the literal of the format; then the int() of each field.
StrptimeMatch(s, withUTC, p1, p2, hs, p3, ml) ==
    IF /\ ml > 0
       /\ DirDay(Slice(s, 0, p1))
       /\ DirMonth(Slice(s, p1 + 1, p2))
       /\ DirYear(Slice(s, p2 + 1, p2 + 5))
       /\ DirHour(Slice(s, hs, p3))
       /\ FormatTail(Slice(s, p3 + 1 + ml, Len(s)), withUTC)
    THEN << DigitsVal(Strip(Slice(s, 0, p1))),
            DigitsVal(Slice(s, p1 + 1, p2)),
            DigitsVal(Slice(s, p2 + 1, p2 + 5)),
            DigitsVal(Slice(s, hs, p3)),
            DigitsVal(Slice(s, p3 + 1, p3 + 1 + ml)) >>
    ELSE <<>>

\* The colon after the hour, which starts at 0-based index hs.
StrptimeHour(s, withUTC, p1, p2, hs, p3) ==
    IF p3 < 0 THEN <<>>
    ELSE StrptimeMatch(s, withUTC, p1, p2, hs, p3, MinuteLen(s, p3))

\* The whitespace (one character or more) between the year and the hour.
StrptimeGap(s, withUTC, p1, p2, sp) ==
    IF sp = 0 THEN <<>>
    ELSE StrptimeHour(s, withUTC, p1, p2, p2 + 5 + sp,
                      FindFrom(s, <<":">>, p2 + 5 + sp))

\* The second slash, followed by the four characters of the year.
StrptimeYear(s, withUTC, p1, p2) ==
    IF p2 < 0 \/ p2 + 5 > Len(s) THEN <<>>
    ELSE StrptimeGap(s, withUTC, p1, p2, SpaceRun(s, p2 + 5))

StrptimeDay(s, withUTC, p1) ==
    IF p1 < 0 THEN <<>>
    ELSE StrptimeYear(s, withUTC, p1, FindFrom(s, <<"/">>, p1 + 1))

\* The fields <<d, m, Y, H, M>> a str reads as under "%d/%m/%Y %H:%M"
\* (withUTC false) or "%d/%m/%Y %H:%M UTC" (withUTC true), or <<>> when
\* strptime raises ValueError (no match, or unconverted data remains).
StrptimeFields(s, withUTC) == StrptimeDay(s, withUTC, FindFrom(s, <<"/">>, 0))

IsLeap(y) == y % 4 = 0 /\ (y % 100 # 0 \/ y % 400 = 0)

DaysInMonth(y, m) ==
    IF m = 2 THEN (IF IsLeap(y) THEN 29 ELSE 28)
    ELSE IF m \in {4, 6, 9, 11} THEN 30 ELSE 31

RECURSIVE DaysBeforeMonth(_, _)
DaysBeforeMonth(y, m) ==
    IF m = 1 THEN 0 ELSE DaysBeforeMonth(y, m - 1) + DaysInMonth(y, m - 1)

DaysBeforeYear(y) ==
    (y - 1) * 365 + ((y - 1) \div 4) - ((y - 1) \div 100) + ((y - 1) \div 400)

\* datetime.toordinal(): the day number, 1 for 0001-01-01
YmdToOrd(y, m, d) == DaysBeforeYear(y) + DaysBeforeMonth(y, m) + d

\* A datetime: year, month, day, hour, minute, second, and whether it
\* carries tzinfo=timezone.utc (aware) or none (naive).
DateTime(y, mo, d, h, mi, s, a) ==
    [kind |-> "datetime", val |-> <<y, mo, d, h, mi, s, a>>]

IsDateTime(x) == x.kind = "datetime"

Aware(dt) == dt.val[7]

\* dt.replace(tzinfo=...)
WithTz(dt, a) == [dt EXCEPT !.val[7] = a]

Ordinal(dt) == YmdToOrd(dt.val[1], dt.val[2], dt.val[3])

SecondOfDay(dt) == dt.val[4] * 3600 + dt.val[5] * 60 + dt.val[6]

\* The datetime of the fields f; PyNone stands for the ValueError of a str
\* that does not match, or whose fields are no date (year 0, day 31 of a
\* 30-day month).
DateOfFields(f) ==
    IF f = <<>> THEN PyNone
    ELSE IF f[3] < 1 \/ f[1] > DaysInMonth(f[3], f[2]) THEN PyNone
    ELSE DateTime(f[3], f[2], f[1], f[4], f[5], 0, FALSE)

\* datetime.strptime(s, fmt), a naive datetime
Strptime(s, withUTC) == DateOfFields(StrptimeFields(s, withUTC))

\* The loop over the two formats: the second is tried when the first raised.
SecondFormat(first, s) ==
    IF IsDateTime(first) THEN first ELSE Strptime(s, FALSE)

UTCWord == <<"U","T","C">>

\* The mutation of AttachTz: the tzinfo is attached whatever the text holds.
AttachTzAlways(dt, s) ==
    IF IsDateTime(dt) THEN WithTz(dt, TRUE) ELSE PyNone

\* dt.replace(tzinfo=timezone.utc) only when the text does not hold "UTC":
\* a date read with the " UTC" suffix stays naive.
AttachTz(dt, s) ==
    IF IsDateTime(dt) THEN WithTz(dt, ~Contains(s, UTCWord)) ELSE PyNone

\* _parse_date(s): None for a falsy s, for a value strptime does not take
\* and for a str neither format reads.
_parse_date(s) ==
    IF ~Truthy(s) \/ ~IsStr(s) THEN PyNone
    ELSE AttachTz(SecondFormat(Strptime(s.val, TRUE), s.val), s.val)

\* timedelta a - b of two aware datetimes, normalised as Python does:
\* <<days, seconds>> with 0 <= seconds < 86400.
NormalDelta(d, s) == IF s < 0 THEN <<d - 1, s + 86400>> ELSE <<d, s>>

TimeDelta(a, b) ==
    NormalDelta(Ordinal(a) - Ordinal(b), SecondOfDay(a) - SecondOfDay(b))

\* timedelta.__le__: lexicographic on (days, seconds)
DeltaLe(x, y) == x[1] < y[1] \/ (x[1] = y[1] /\ x[2] <= y[2])

ThirtyMinutes == 1800

SixHours == 21600

(* ------------------------- status reconciliation ----------------------- *)

Statuses == {"ONLINE", "OFFLINE", "TIMEOUT", "DISCONNECT", "REPAIR", "UNKNOWN"}

\* An absent or None status (station.get("status_from_icon") of a record
\* without the key).
NoStatus == ""

\* The mutation of StatusOfDelay: both limits exclusive.
StatusOfDelayStrict(delay) ==
    IF ~DeltaLe(<<0, ThirtyMinutes>>, delay) THEN "ONLINE"
    ELSE IF ~DeltaLe(<<0, SixHours>>, delay) THEN "TIMEOUT"
    ELSE "DISCONNECT"

\* The comparisons of delay with timedelta(minutes=30) and timedelta(hours=6).
StatusOfDelay(delay) ==
    IF DeltaLe(delay, <<0, ThirtyMinutes>>) THEN "ONLINE"
    ELSE IF DeltaLe(delay, <<0, SixHours>>) THEN "TIMEOUT"
    ELSE "DISCONNECT"

\* A naive dt is given tzinfo=utc before the subtraction, so a date of
\* either format counts as UTC here.
StatusOfReport(dt, t) ==
    IF ~IsDateTime(dt) THEN "DISCONNECT" ELSE StatusOfDelay(TimeDelta(t, dt))

\* determine_status_by_timestamp(station), with t the value of
\* datetime.now(timezone.utc).
determine_status_by_timestamp(st, t) ==
    IF ~Truthy(Get(st, "date")) THEN "DISCONNECT"
    ELSE StatusOfReport(_parse_date(Get(st, "date")), t)

KwOnline == <<"O","N","L","I","N","E">>

KwNormal == <<"N","O","R","M","A","L">>

KwActive == <<"A","C","T","I","V","E">>

KwOffline == <<"O","F","F","L","I","N","E">>

KwTimeout == <<"T","I","M","E","O","U","T">>

KwDisconnect == <<"D","I","S","C","O","N","N","E","C","T">>

\* The mutation of the keyword chain: OFFLINE is looked for last.
KeywordStatusOfflineLast(u) ==
    IF Contains(u, KwOnline) \/ Contains(u, KwNormal) \/ Contains(u, KwActive)
    THEN "ONLINE"
    ELSE IF Contains(u, KwTimeout) THEN "TIMEOUT"
    ELSE IF Contains(u, KwDisconnect) THEN "DISCONNECT"
    ELSE IF Contains(u, KwOffline) THEN "OFFLINE"
    ELSE NoStatus

\* The keyword chain over status_upper; NoStatus when no keyword is found.
KeywordStatus(u) ==
    IF Contains(u, KwOnline) \/ Contains(u, KwNormal) \/ Contains(u, KwActive)
    THEN "ONLINE"
    ELSE IF Contains(u, KwOffline) THEN "OFFLINE"
    ELSE IF Contains(u, KwTimeout) THEN "TIMEOUT"
    ELSE IF Contains(u, KwDisconnect) THEN "DISCONNECT"
    ELSE NoStatus

\* Step 2 of determine_final_status: a truthy status_text, upper-cased.
StatusFromText(x) ==
    IF Truthy(x) THEN KeywordStatus(Upper(x.val)) ELSE NoStatus

\* One value of the fleet-status mapping: the dict fetch_all_stations_status
\* stores per station code, of which the core reads "status".
FleetEntry(s) == [kind |-> "entry", status |-> s]

\* all_status_dict.get(code): the entry, or PyNone. A dict key is a str, so
\* a number finds nothing.
FleetGet(d, code) ==
    IF code.kind = "str" /\ code.val \in DOMAIN d.val THEN d.val[code.val]
    ELSE PyNone

\* Whether step 1 of determine_final_status raises: dict.get of an
\* unhashable key (a station code that is a mapping) is a TypeError.
FleetGetRaises(st, d) ==
    Truthy(d) /\ Truthy(Get(st, "station_code")) /\ Get(st, "station_code").kind = "map"

\* The mutation of StatusFromIconOrDate: a parseable date is consulted
\* before the icon.
StatusFromDateOrIcon(st, t) ==
    IF IsDateTime(_parse_date(Get(st, "date"))) THEN determine_status_by_timestamp(st, t)
    ELSE IF st.status_from_icon # NoStatus /\ st.status_from_icon # "UNKNOWN"
         THEN st.status_from_icon
    ELSE "DISCONNECT"

\* The mutation of StatusFromIconOrDate: an UNKNOWN icon status is returned
\* like any other.
StatusFromAnyIconOrDate(st, t) ==
    IF st.status_from_icon # NoStatus THEN st.status_from_icon
    ELSE determine_status_by_timestamp(st, t)

\* Steps 3 and 4 of determine_final_status.
StatusFromIconOrDate(st, t) ==
    IF st.status_from_icon # NoStatus /\ st.status_from_icon # "UNKNOWN"
    THEN st.status_from_icon
    ELSE determine_status_by_timestamp(st, t)

\* Step 2, given the status txt the keyword chain found.
StatusFromTextOr(txt, st, t) ==
    IF txt # NoStatus THEN txt ELSE StatusFromIconOrDate(st, t)

\* The mutation of StatusFromFleetOr: a definite icon beats the fleet entry.
StatusFromIconThenFleet(info, st, t) ==
    IF st.status_from_icon # NoStatus /\ st.status_from_icon # "UNKNOWN"
    THEN st.status_from_icon
    ELSE IF info.kind # "none" /\ info.status # "UNKNOWN" THEN info.status
    ELSE StatusFromTextOr(StatusFromText(Get(st, "status_text")), st, t)

\* Step 1, given the entry info that all_status_dict.get returned (PyNone
\* when the table or the code is falsy, or the code has no entry).
StatusFromFleetOr(info, st, t) ==
    IF info.kind # "none" /\ info.status # "UNKNOWN" THEN info.status
    ELSE StatusFromTextOr(StatusFromText(Get(st, "status_text")), st, t)

\* The entry step 1 looks at.
FleetInfo(st, d) ==
    IF Truthy(d) /\ Truthy(Get(st, "station_code")) THEN FleetGet(d, Get(st, "station_code"))
    ELSE PyNone

\* determine_final_status(station, all_status_dict), for a call that does
\* not raise (see FleetGetRaises); t is the clock the staleness fallback reads.
determine_final_status(st, d, t) == StatusFromFleetOr(FleetInfo(st, d), st, t)

(* ------------------------- inputs of the reconciler -------------------- *)

CodeG1 == <<"G","1","0","0","1">>

CodeG2 == <<"G","2","0","0","2">>

\* The clock: 01/01/2024 12:00:00 UTC and one second later.
Noon == DateTime(2024, 1, 1, 12, 0, 0, TRUE)

NoonPlus1s == DateTime(2024, 1, 1, 12, 0, 1, TRUE)

Clocks == {Noon, NoonPlus1s}

D1130 == <<"0","1","/","0","1","/","2","0","2","4"," ","1","1",":","3","0">>

D1115 == <<"0","1","/","0","1","/","2","0","2","4"," ","1","1",":","1","5">>

D0600 == <<"0","1","/","0","1","/","2","0","2","4"," ","0","6",":","0","0">>

D1145utc == <<"1","/","1","/","2","0","2","4"," ","1","1",":","4","5"," ","u","t","c">>

D1230 == <<"0","1","/","0","1","/","2","0","2","4"," ","1","2",":","3","0">>

DYesterday == <<"3","1","/","1","2","/","2","0","2","3"," ","2","3",":","0","0"," ","U","T","C">>

DIso == <<"2","0","2","4","-","0","1","-","0","1"," ","1","1",":","4","5">>

DFeb31 == <<"3","1","/","0","2","/","2","0","2","4"," ","1","0",":","0","0">>

DTrailing == <<"0","1","/","0","1","/","2","0","2","4"," ","1","1",":","4","5"," ","G","M","T">>

ParseableDates == {D1130, D1115, D0600, D1145utc, D1230, DYesterday}

UnparseableDates == {DIso, DFeb31, DTrailing}

ReconcileDates ==
    {PyNone} \cup {PyStr(d) : d \in ParseableDates \cup UnparseableDates}

TxtNormal == <<"n","o","r","m","a","l"," ","o","p","e","r","a","t","i","o","n">>

TxtInactive == <<"I","n","a","c","t","i","v","e">>

TxtDisconnected == <<"d","i","s","c","o","n","n","e","c","t","e","d">>

TxtOfflineTimeout == <<"t","i","m","e","o","u","t",","," ","t","h","e","n"," ","o","f","f","l","i","n","e">>

TxtTimeoutDisconnect == <<"d","i","s","c","o","n","n","e","c","t"," ","a","f","t","e","r"," ","t","i","m","e","o","u","t">>

TxtOfflineOnline == <<"o","f","f","l","i","n","e"," ","(","w","a","s"," ","o","n","l","i","n","e",")">>

TxtRepair == <<"U","n","d","e","r"," ","r","e","p","a","i","r">>

KeywordTexts ==
    {TxtNormal, TxtInactive, TxtDisconnected, TxtOfflineTimeout,
     TxtTimeoutDisconnect, TxtOfflineOnline}

ReconcileTexts ==
    {PyNone, PyStr(<<>>), PyStr(TxtRepair)} \cup {PyStr(x) : x \in KeywordTexts}

ReconcileCodes == {PyNone, PyStr(CodeG1), PyStr(CodeG2)}

\* The fleet-status mappings: none, the empty dict, and dicts keyed by
\* station code whose entries carry a status of the fleet-table classifier.
FleetTables ==
    {PyNone, PyMap(<<>>)}
      \cup {PyMap([c \in {CodeG1} |-> FleetEntry(s)]) :
              s \in {"ONLINE", "OFFLINE", "REPAIR", "UNKNOWN"}}
      \cup {PyMap([c \in {CodeG1, CodeG2} |->
                     IF c = CodeG1 THEN FleetEntry("UNKNOWN")
                     ELSE FleetEntry("TIMEOUT")])}

ReconcileStations ==
    [station_code : ReconcileCodes, status_text : ReconcileTexts,
     status_from_icon : Statuses, date : ReconcileDates]

NoStation ==
    [station_code |-> PyNone, status_text |-> PyNone,
     status_from_icon |-> NoStatus, date |-> PyNone]

(* ------------------------- the reconciler alone ------------------------ *)

InitReconcile ==
    /\ arg = <<>>
    /\ result = PyNone
    /\ locals = <<>>
    /\ pc = "reconcile"
    /\ station \in ReconcileStations
    /\ all_status_dict \in FleetTables
    /\ now \in Clocks
    /\ status = NoStatus
    /\ html = <<>>
    /\ pos = 0
    /\ count = 0
    /\ records = <<>>
    /\ idx = 0
    /\ out = <<>>
    /\ cleaned = <<>>
    /\ err = "none"

\* st["status"] = determine_final_status(st, all_status_dict)
Reconcile ==
    /\ pc = "reconcile"
    /\ status' = determine_final_status(station, all_status_dict, now)
    /\ pc' = "reconciled"
    /\ UNCHANGED <<arg, result, locals, html, all_status_dict, now, station, pos, count,
                   records, idx, out, cleaned, err>>

NextReconcile == Reconcile

SpecReconcile == InitReconcile /\ [][NextReconcile]_vars

(* ------------------------- numbers in text ----------------------------- *)

\* The number of digits of s from 0-based index i on (the greedy \d+).
DigitRun(s, i) ==
    CHOOSE n \in 0..(Len(s) - i) :
        /\ \A k \in 1..n : IsDigit(s[i + k])
        /\ (i + n = Len(s) \/ ~IsDigit(s[i + n + 1]))

\* Whether -?\d+ matches at 0-based index i.
NumberStartsAt(s, i) ==
    /\ i < Len(s)
    /\ \/ IsDigit(s[i + 1])
       \/ s[i + 1] = "-" /\ i + 1 < Len(s) /\ IsDigit(s[i + 2])

\* Where re.search finds its first match of a pattern that starts with
\* -?\d+, or -1.
FirstNumber(s) ==
    IF \E i \in 0..(Len(s) - 1) : NumberStartsAt(s, i)
    THEN CHOOSE i \in 0..(Len(s) - 1) :
            /\ NumberStartsAt(s, i)
            /\ \A j \in 0..(i - 1) : ~NumberStartsAt(s, j)
    ELSE -1

RECURSIVE StripTrailingZeros(_)
StripTrailingZeros(f) ==
    IF f # <<>> /\ f[Len(f)] = "0" THEN StripTrailingZeros(SubSeq(f, 1, Len(f) - 1))
    ELSE f

\* float() of a decimal: sign, integer digits ip, and fraction digits fp
\* without trailing zeros. The value is DigitsVal(ip fp) * 10^-Len(fp).
FloatOfParts(neg, ip, fp) ==
    PyFloat((IF neg THEN -1 ELSE 1) * DigitsVal(ip \o fp), 0 - Len(fp))

\* The group (\.\d+)? after the digits that end at 0-based index e: the
\* number of fraction digits, 0 when the group does not match.
FractionRun(s, e) ==
    IF e < Len(s) /\ s[e + 1] = "." THEN DigitRun(s, e + 1) ELSE 0

\* float(m.group(1)) for the match of (-?\d+(\.\d+)?) whose digits start at
\* 0-based index ds and are n long, with fn fraction digits.
FloatOfMatch(s, neg, ds, n, fn) ==
    FloatOfParts(neg, Slice(s, ds, ds + n),
                 StripTrailingZeros(Slice(s, ds + n + 1, ds + n + 1 + fn)))

FloatOfDigitsAt(s, neg, ds, n) ==
    FloatOfMatch(s, neg, ds, n, FractionRun(s, ds + n))

FloatOfNumberAt(s, neg, ds) == FloatOfDigitsAt(s, neg, ds, DigitRun(s, ds))

\* float() of the match that starts at 0-based index i, PyNone for i = -1;
\* the match may start with a sign.
FloatAt(s, i) ==
    IF i < 0 THEN PyNone
    ELSE FloatOfNumberAt(s, s[i + 1] = "-",
                         IF s[i + 1] \in {"-", "+"} THEN i + 1 ELSE i)

\* The mutation of _to_mm: the first run of digits only, (-?\d+).
ToMmIntegerPart(v) ==
    IF ~Truthy(v) \/ ~IsStr(v) \/ FirstNumber(v.val) < 0 THEN PyNone
    ELSE FloatOfMatch(v.val, v.val[FirstNumber(v.val) + 1] = "-",
                      IF v.val[FirstNumber(v.val) + 1] = "-"
                      THEN FirstNumber(v.val) + 1 ELSE FirstNumber(v.val),
                      DigitRun(v.val, IF v.val[FirstNumber(v.val) + 1] = "-"
                                      THEN FirstNumber(v.val) + 1
                                      ELSE FirstNumber(v.val)),
                      0)

\* _to_mm(v): the first number of the rain text, or None
_to_mm(v) ==
    IF ~Truthy(v) \/ ~IsStr(v) THEN PyNone ELSE FloatAt(v.val, FirstNumber(v.val))

(* ------------------------- isoformat ----------------------------------- *)

Pad2(n) == <<Digits[(n \div 10) + 1], Digits[(n % 10) + 1]>>

Pad4(n) == Pad2(n \div 100) \o Pad2(n % 100)

\* datetime.isoformat() of a datetime without microseconds
IsoFormat(dt) ==
    Pad4(dt.val[1]) \o <<"-">> \o Pad2(dt.val[2]) \o <<"-">> \o Pad2(dt.val[3])
      \o <<"T">> \o Pad2(dt.val[4]) \o <<":">> \o Pad2(dt.val[5])
      \o <<":">> \o Pad2(dt.val[6])
      \o (IF Aware(dt) THEN <<"+","0","0",":","0","0">> ELSE <<>>)

(* ------------------------- clean_data ---------------------------------- *)

\* existing_dt < dt of two datetimes of the same awareness
DateLess(a, b) ==
    \/ Ordinal(a) < Ordinal(b)
    \/ Ordinal(a) = Ordinal(b) /\ SecondOfDay(a) < SecondOfDay(b)

\* {**r, ...}: the fields of upd added to, or replacing, those of r
Merge(r, upd) ==
    [k \in DOMAIN r \cup DOMAIN upd |-> IF k \in DOMAIN upd THEN upd[k] ELSE r[k]]

\* The outcome of one pass of the loop body: the dict out (its values, in
\* insertion order, each keyed by its station_code) and the exception
\* raised, if any.
Ok(o) == [out |-> o, err |-> "none"]

Raise(o, e) == [out |-> o, err |-> e]

\* r.get("code") or r.get("station_code") or ""
CodeOrEmpty(r) ==
    IF Truthy(Get(r, "code")) THEN Get(r, "code")
    ELSE IF Truthy(Get(r, "station_code")) THEN Get(r, "station_code")
    ELSE PyStr(<<>>)

\* The position in out of the key code, 0 for `code not in out`.
KeyIndex(o, code) ==
    IF \E i \in DOMAIN o : o[i].station_code.val = code
    THEN CHOOSE i \in DOMAIN o : o[i].station_code.val = code
    ELSE 0

DateIso(dt) == IF IsDateTime(dt) THEN PyStr(IsoFormat(dt)) ELSE PyNone

\* rec = {**r, "station_code": code, "rain_mm": ..., "date_iso": ...}
CleanRec(r, code, dt) ==
    Merge(r, [station_code |-> PyStr(code), rain_mm |-> _to_mm(Get(r, "rain")),
              date_iso |-> DateIso(dt)])

\* The mutation of CleanCompare: a stored record whose date does not parse
\* gives way to a record whose date does.
CleanCompareReplaceUnparsed(o, dt, rec, i, existing_dt) ==
    IF IsDateTime(dt) /\ ~IsDateTime(existing_dt) THEN Ok([o EXCEPT ![i] = rec])
    ELSE IF ~(IsDateTime(dt) /\ IsDateTime(existing_dt)) THEN Ok(o)
    ELSE IF Aware(dt) # Aware(existing_dt) THEN Raise(o, "TypeError")
    ELSE IF DateLess(existing_dt, dt) THEN Ok([o EXCEPT ![i] = rec])
    ELSE Ok(o)

\* dt and existing_dt and existing_dt < dt: the comparison is reached only
\* when both dates parsed, and a naive datetime does not compare with an
\* aware one (TypeError).
CleanCompare(o, dt, rec, i, existing_dt) ==
    IF ~(IsDateTime(dt) /\ IsDateTime(existing_dt)) THEN Ok(o)
    ELSE IF Aware(dt) # Aware(existing_dt) THEN Raise(o, "TypeError")
    ELSE IF DateLess(existing_dt, dt) THEN Ok([o EXCEPT ![i] = rec])
    ELSE Ok(o)

\* code not in out: store; else compare with the stored record's date.
CleanStore(o, dt, rec, i) ==
    IF i = 0 THEN Ok(Append(o, rec))
    ELSE CleanCompare(o, dt, rec, i, _parse_date(Get(o[i], "date")))

CleanDated(o, r, code, dt) ==
    CleanStore(o, dt, CleanRec(r, code, dt), KeyIndex(o, code))

\* The mutation of CleanKey: a record without a code is stored like any
\* other.
CleanKeyKeepEmpty(o, r, code) == CleanDated(o, r, code, _parse_date(Get(r, "date")))

\* if not code: continue
CleanKey(o, r, code) ==
    IF code = <<>> THEN Ok(o) ELSE CleanDated(o, r, code, _parse_date(Get(r, "date")))

\* .strip() of a value that is no str is an AttributeError.
CleanCode(o, r, x) ==
    IF ~IsStr(x) THEN Raise(o, "AttributeError") ELSE CleanKey(o, r, Strip(x.val))

\* One pass of the loop body of clean_data for the record r.
CleanRecord(o, r) == CleanCode(o, r, CodeOrEmpty(r))

ApplyClean(res) ==
    /\ out' = res.out
    /\ err' = res.err
    /\ pc' = IF res.err = "none" THEN "clean" ELSE "raised"
    /\ idx' = idx + 1

\* The mutation of CleanStep: the normalised fields are written into the
\* input record (r.update(...)) before it is stored.
CleanStepInPlace ==
    /\ pc = "clean"
    /\ idx < Len(records)
    /\ ApplyClean(CleanRecord(out, records[idx + 1]))
    /\ records' = [records EXCEPT ![idx + 1] =
                      Merge(@, [rain_mm |-> _to_mm(Get(@, "rain"))])]
    /\ UNCHANGED <<arg, result, locals, html, all_status_dict, now, station, status, pos,
                   count, cleaned>>

\* for r in records: one record per step
CleanStep ==
    /\ pc = "clean"
    /\ idx < Len(records)
    /\ ApplyClean(CleanRecord(out, records[idx + 1]))
    /\ UNCHANGED <<arg, result, locals, html, all_status_dict, now, station, status, pos,
                   count, records, cleaned>>

\* return list(out.values())
CleanReturn ==
    /\ pc = "clean"
    /\ idx = Len(records)
    /\ cleaned' = out
    /\ pc' = "cleaned"
    /\ UNCHANGED <<arg, result, locals, html, all_status_dict, now, station, status, pos,
                   count, records, idx, out, err>>

(* ------------------------- inputs of clean_data ------------------------ *)

MaxRecords == 3

CodeG1Padded == <<" ","G","1","0","0","1"," ">>

CodeBlank == <<" "," ">>

T1000 == <<"0","1","/","0","1","/","2","0","2","4"," ","1","0",":","0","0">>

T1200 == <<"0","1","/","0","1","/","2","0","2","4"," ","1","2",":","0","0">>

T1100utc == <<"0","1","/","0","1","/","2","0","2","4"," ","1","1",":","0","0"," ","U","T","C">>

DedupParseable == {T1000, T1200, T1100utc}

RainText == <<"R","a","i","n"," ","1",".","2","0"," ","m","m">>

\* A record as parse_setmap_from_html leaves it, cut to the keys clean_data
\* reads; name tells the records of one input apart.
DedupRecord(c, d) ==
    [code |-> c, station_code |-> c, date |-> d, rain |-> PyStr(RainText),
     name |-> PyInt(0)]

DedupRecords ==
    {DedupRecord(PyStr(c), d) :
        c \in {CodeG1, CodeG1Padded},
        d \in {PyNone, PyStr(DIso), PyStr(T1000), PyStr(T1200), PyStr(T1100utc)}}
      \cup {DedupRecord(PyStr(CodeG2), d) : d \in {PyStr(DIso), PyStr(T1000)}}
      \cup {DedupRecord(c, PyStr(T1200)) : c \in {PyNone, PyStr(CodeBlank)}}

\* The records numbered by their place in the input.
Numbered(base) == [i \in DOMAIN base |-> [base[i] EXCEPT !.name = PyInt(i)]]

InitDedup ==
    /\ arg = <<>>
    /\ result = PyNone
    /\ locals = <<>>
    /\ pc = "clean"
    /\ \E n \in 0..MaxRecords :
          \E base \in [1..n -> DedupRecords] : records = Numbered(base)
    /\ idx = 0
    /\ out = <<>>
    /\ cleaned = <<>>
    /\ err = "none"
    /\ html = <<>>
    /\ pos = 0
    /\ count = 0
    /\ all_status_dict = PyNone
    /\ now = Noon
    /\ station = NoStation
    /\ status = NoStatus

NextDedup == CleanStep \/ CleanReturn

SpecDedup == InitDedup /\ [][NextDedup]_vars

(* ------------------------- scanning helpers ---------------------------- *)

\* The elements of a finite set of integers, in ascending order.
SortedSeq(S) ==
    [j \in 1..Cardinality(S) |->
        CHOOSE x \in S : Cardinality({y \in S : y <= x}) = j]

\* The concatenation of seqs[lo], ..., seqs[hi].
RECURSIVE FlattenRange(_, _, _)
FlattenRange(seqs, lo, hi) ==
    IF lo > hi THEN <<>>
    ELSE IF lo = hi THEN seqs[lo]
    ELSE FlattenRange(seqs, lo, (lo + hi) \div 2)
           \o FlattenRange(seqs, (lo + hi) \div 2 + 1, hi)

Flatten(seqs) == FlattenRange(seqs, 1, Len(seqs))

\* The pieces of s between its separators; cuts holds the 1-based places of
\* the separators in ascending order.
Fields(s, cuts) ==
    [j \in 1..(Len(cuts) + 1) |->
        Slice(s, IF j = 1 THEN 0 ELSE cuts[j - 1],
                 IF j > Len(cuts) THEN Len(s) ELSE cuts[j] - 1)]

\* The pieces stripped, without those that strip to nothing.
StrippedNonEmpty(fs) ==
    SelectSeq([j \in DOMAIN fs |-> Strip(fs[j])], LAMBDA t : t # <<>>)

\* s with each match replaced: ms holds the matches from left to right,
\* each with its 0-based start at, its length len and its replacement by.
Substitute(s, ms) ==
    Flatten([j \in 1..(Len(ms) + 1) |->
        Slice(s, IF j = 1 THEN 0 ELSE ms[j - 1].at + ms[j - 1].len,
                 IF j > Len(ms) THEN Len(s) ELSE ms[j].at)
          \o (IF j > Len(ms) THEN <<>> ELSE ms[j].by)])

\* The 1-based index of the first character of s at or after index i that
\* is in cs, or 0.
FirstFrom(s, cs, i) ==
    IF \E k \in i..Len(s) : s[k] \in cs
    THEN CHOOSE k \in i..Len(s) : s[k] \in cs /\ \A j \in i..(k - 1) : s[j] \notin cs
    ELSE 0

FirstOf(s, cs) == FirstFrom(s, cs, 1)

(* ------------------------- _tokenize_args ------------------------------ *)

\* The state after the character c met outside any literal.
OpenState(c) ==
    IF c \in {"'", "\""} THEN c ELSE IF c = "{" THEN "{" ELSE "none"

\* brace_depth after the character c met inside a brace literal
BraceDepthAfter(brace_depth, c) ==
    IF c = "{" THEN brace_depth + 1
    ELSE IF c = "}" THEN brace_depth - 1
    ELSE brace_depth

\* The mutation of TokStep: a quote closes the string whatever the character
\* before it.
TokStepNoEscape(st, s, p) ==
    IF st[1] = "none" THEN
        IF s[p] = "," THEN st
        ELSE <<OpenState(s[p]), IF s[p] = "{" THEN 1 ELSE st[2]>>
    ELSE IF st[1] \in {"'", "\""} THEN
        <<IF s[p] = st[1] THEN "none" ELSE st[1], st[2]>>
    ELSE
        <<IF BraceDepthAfter(st[2], s[p]) = 0 THEN "none" ELSE "{",
          BraceDepthAfter(st[2], s[p])>>

\* The mutation of TokStep: the first closing brace ends the brace literal,
\* whatever the depth.
TokStepFlatBraces(st, s, p) ==
    IF st[1] = "none" THEN
        IF s[p] = "," THEN st
        ELSE <<OpenState(s[p]), IF s[p] = "{" THEN 1 ELSE st[2]>>
    ELSE IF st[1] \in {"'", "\""} THEN
        <<IF s[p] = st[1] /\ (p = 1 \/ s[p - 1] # "\\") THEN "none" ELSE st[1], st[2]>>
    ELSE
        <<IF s[p] = "}" THEN "none" ELSE "{", BraceDepthAfter(st[2], s[p])>>

\* One pass of the loop of _tokenize_args, on the character s[p] (1-based):
\* st is <<state, brace_depth>> before it, the result the pair after it.
\* state is "none" outside any literal, the opening quote inside a string,
\* "{" inside a brace literal.
TokStep(st, s, p) ==
    IF st[1] = "none" THEN
        IF s[p] = "," THEN st
        ELSE <<OpenState(s[p]), IF s[p] = "{" THEN 1 ELSE st[2]>>
    ELSE IF st[1] \in {"'", "\""} THEN
        <<IF s[p] = st[1] /\ (p = 1 \/ s[p - 1] # "\\") THEN "none" ELSE st[1], st[2]>>
    ELSE
        <<IF BraceDepthAfter(st[2], s[p]) = 0 THEN "none" ELSE "{",
          BraceDepthAfter(st[2], s[p])>>

\* The pairs after each of the characters s[lo..hi], from the pair st
\* before s[lo].
RECURSIVE TokScan(_, _, _, _)
RECURSIVE TokScanRight(_, _, _, _)
TokScanRight(s, lo, hi, left) ==
    left \o TokScan(s, (lo + hi) \div 2 + 1, hi, left[Len(left)])

TokScan(s, lo, hi, st) ==
    IF lo > hi THEN <<>>
    ELSE IF lo = hi THEN <<TokStep(st, s, lo)>>
    ELSE TokScanRight(s, lo, hi, TokScan(s, lo, (lo + hi) \div 2, st))

\* The commas met outside any literal.
TokCuts(s, states) ==
    {p \in DOMAIN s : s[p] = "," /\ (p = 1 \/ states[p - 1][1] = "none")}

\* Each comma met outside any literal ends a token; a token is kept when it
\* is not empty once stripped.
_tokenize_args(s) ==
    StrippedNonEmpty(Fields(s, SortedSeq(TokCuts(s, TokScan(s, 1, Len(s), <<"none", 0>>)))))

(* ------------------------- _clean_str ---------------------------------- *)

\* The occurrences of old that s.replace meets from index i on, from left
\* to right and without overlap.
RECURSIVE Occurrences(_, _, _)
RECURSIVE OccurrencesAt(_, _, _)
OccurrencesAt(s, old, p) ==
    IF p < 0 THEN <<>> ELSE <<p>> \o Occurrences(s, old, p + Len(old))

Occurrences(s, old, i) == OccurrencesAt(s, old, FindFrom(s, old, i))

ReplaceAt(s, old, new, occ) ==
    Substitute(s, [j \in DOMAIN occ |-> [at |-> occ[j], len |-> Len(old), by |-> new]])

\* s.replace(old, new) for a non-empty old
Replace(s, old, new) == ReplaceAt(s, old, new, Occurrences(s, old, 0))

\* tok starts and ends with ' or starts and ends with "
IsQuoted(tok) ==
    /\ tok # <<>>
    /\ \/ tok[1] = "'" /\ tok[Len(tok)] = "'"
       \/ tok[1] = "\"" /\ tok[Len(tok)] = "\""

Unquote(tok) ==
    Replace(Replace(Slice(tok, 1, Len(tok) - 1), <<"\\", "'">>, <<"'">>),
            <<"\\", "\"">>, <<"\"">>)

CleanStripped(tok) == IF IsQuoted(tok) THEN Unquote(tok) ELSE tok

_clean_str(tok) == CleanStripped(Strip(tok))

(* ------------------------- _try_num ------------------------------------ *)

\* float('inf'), float('-inf') and float('nan')
FloatInf(neg) == [kind |-> "float", val |-> <<IF neg THEN -1 ELSE 1, 0, "inf">>]

FloatNan == [kind |-> "float", val |-> <<1, 0, "nan">>]

\* The float m * 10^e in the form the model keeps floats in: e <= 0, and m
\* with no trailing zero when e < 0. (The decimals of the model are short:
\* no rounding, no overflow.)
RECURSIVE NormalFloat(_, _)
NormalFloat(m, e) ==
    IF m = 0 THEN PyFloat(0, 0)
    ELSE IF e > 0 THEN NormalFloat(m * 10, e - 1)
    ELSE IF e < 0 /\ m % 10 = 0 THEN NormalFloat(m \div 10, e + 1)
    ELSE PyFloat(m, e)

\* Digits with single underscores between them, as float() and int() allow.
DigitGroup(s) ==
    /\ s # <<>>
    /\ IsDigit(s[1])
    /\ IsDigit(s[Len(s)])
    /\ \A i \in DOMAIN s :
          IsDigit(s[i]) \/ (s[i] = "_" /\ IsDigit(s[i - 1]) /\ IsDigit(s[i + 1]))

NoUnderscore(s) == SelectSeq(s, LAMBDA c : c # "_")

FloatOfDecimal(neg, ip, fp, e) ==
    NormalFloat((IF neg THEN -1 ELSE 1) * DigitsVal(ip \o fp), e - Len(fp))

FloatFraction(neg, e, ip, fp) ==
    IF /\ ip = <<>> \/ DigitGroup(ip)
       /\ fp = <<>> \/ DigitGroup(fp)
       /\ ip # <<>> \/ fp # <<>>
    THEN FloatOfDecimal(neg, NoUnderscore(ip), StripTrailingZeros(NoUnderscore(fp)), e)
    ELSE PyNone

FloatPoint(m, neg, e, p) ==
    IF p = 0 THEN FloatFraction(neg, e, m, <<>>)
    ELSE FloatFraction(neg, e, SubSeq(m, 1, p - 1), SubSeq(m, p + 1, Len(m)))

\* The exponent after e or E: an optional sign and a digit group.
ExponentDigits(x) ==
    IF x # <<>> /\ x[1] \in {"+", "-"} THEN Tail(x) ELSE x

ExponentVal(x) ==
    (IF x[1] = "-" THEN -1 ELSE 1) * DigitsVal(NoUnderscore(ExponentDigits(x)))

FloatExponent(b, neg, x) ==
    IF x = 0 THEN FloatPoint(b, neg, 0, FirstOf(b, {"."}))
    ELSE IF DigitGroup(ExponentDigits(SubSeq(b, x + 1, Len(b))))
         THEN FloatPoint(SubSeq(b, 1, x - 1), neg,
                         ExponentVal(SubSeq(b, x + 1, Len(b))),
                         FirstOf(SubSeq(b, 1, x - 1), {"."}))
    ELSE PyNone

FloatBody(b, neg) ==
    IF Lower(b) \in {<<"i","n","f">>, <<"i","n","f","i","n","i","t","y">>} THEN FloatInf(neg)
    ELSE IF Lower(b) = <<"n","a","n">> THEN FloatNan
    ELSE FloatExponent(b, neg, FirstOf(b, {"e", "E"}))

FloatSigned(t) ==
    IF t = <<>> THEN PyNone
    ELSE IF t[1] \in {"+", "-"} THEN FloatBody(Tail(t), t[1] = "-")
    ELSE FloatBody(t, FALSE)

\* float(s) of a str: the float, or PyNone for a ValueError
Float(s) == FloatSigned(Strip(s))

FloatOr(f, tok) == IF f.kind = "none" THEN PyStr(tok) ELSE f

\* _try_num(tok) of a str tok
_try_num(tok) ==
    IF tok # <<>> /\ AllDigits(tok) THEN PyInt(DigitsVal(tok))
    ELSE FloatOr(Float(tok), tok)

(* ------------------------- _parse_options ------------------------------ *)

CountOf(s, c) == Cardinality({i \in DOMAIN s : s[i] = c})

\* Whether re.split cuts at the comma body[p] (1-based): the rest of the
\* body holds exactly one colon, or no comma.
OptionCutRest(rest) == CountOf(rest, ":") = 1 \/ CountOf(rest, ",") = 0

OptionCut(body, p) ==
    body[p] = "," /\ OptionCutRest(SubSeq(body, p + 1, Len(body)))

\* The parts re.split returns.
OptionParts(body) ==
    Fields(body, SortedSeq({p \in DOMAIN body : OptionCut(body, p)}))

\* s.strip(chars)
RECURSIVE StripChars(_, _)
StripChars(s, cs) ==
    IF s = <<>> THEN s
    ELSE IF s[1] \in cs THEN StripChars(Tail(s), cs)
    ELSE IF s[Len(s)] \in cs THEN StripChars(SubSeq(s, 1, Len(s) - 1), cs)
    ELSE s

\* d[k] = v
DictPut(d, k, v) == [x \in DOMAIN d \cup {k} |-> IF x = k THEN v ELSE d[x]]

\* k, v = part.split(':', 1); d[k.strip().strip("'\"")] = _try_num(v.strip())
OptionPut(d, part, colon) ==
    IF colon = 0 THEN d
    ELSE DictPut(d, StripChars(Strip(SubSeq(part, 1, colon - 1)), {"'", "\""}),
                 _try_num(Strip(SubSeq(part, colon + 1, Len(part)))))

RECURSIVE OptionsOf(_, _)
OptionsOf(parts, d) ==
    IF parts = <<>> THEN d
    ELSE OptionsOf(Tail(parts), OptionPut(d, Head(parts), FirstOf(Head(parts), {":"})))

OptionsStripped(tok) ==
    IF tok # <<>> /\ tok[1] = "{" /\ tok[Len(tok)] = "}"
    THEN PyMap(OptionsOf(OptionParts(Strip(Slice(tok, 1, Len(tok) - 1))), <<>>))
    ELSE PyStr(tok)

_parse_options(tok) == OptionsStripped(Strip(tok))

\* _parse_options(a) if a.startswith('{') and a.endswith('}') else _try_num(a)
Coerce(a) ==
    IF a # <<>> /\ a[1] = "{" /\ a[Len(a)] = "}" THEN _parse_options(a)
    ELSE _try_num(a)

(* ------------------------- parse_status_from_icon ---------------------- *)

\* What repr() makes of the control characters of a str.
ReprEscape(s) ==
    Replace(Replace(Replace(s, <<"\n">>, <<"\\", "n">>), <<"\t">>, <<"\\", "t">>),
            <<"\r">>, <<"\\", "r">>)

\* str(icon_data).lower(), as the texts a keyword can lie in: the str
\* itself; for a dict its keys and its str values (repr puts quotes, colons,
\* commas and spaces between them, and no keyword holds one of these); none
\* for a number, whose text is made of digits, sign, point and exponent, or
\* is inf or nan.
IconTexts(v) ==
    CASE v.kind = "str" -> {Lower(v.val)}
      [] v.kind = "map" ->
           {Lower(ReprEscape(k)) : k \in DOMAIN v.val}
             \cup {Lower(ReprEscape(v.val[k].val)) :
                     k \in {x \in DOMAIN v.val : v.val[x].kind = "str"}}
      [] OTHER -> {}

\* re.search(r'raingauge[_-]\d+(\.png)?', t)
RainGaugeIcon(t) ==
    \E i \in 0..Len(t) :
        /\ StartsWithAt(t, <<"r","a","i","n","g","a","u","g","e">>, i)
        /\ i + 11 <= Len(t)
        /\ t[i + 10] \in {"_", "-"}
        /\ IsDigit(t[i + 11])

IconHas(ts, k) == \E t \in ts : Contains(t, k)

\* The mutation of IconStatus: the offline group is tried before the online
\* group.
IconStatusOfflineFirst(ts) ==
    IF \E t \in ts : RainGaugeIcon(t) THEN "UNKNOWN"
    ELSE IF IconHas(ts, <<"o","f","f","l","i","n","e">>) \/ IconHas(ts, <<"r","e","d">>) \/ IconHas(ts, <<"_","0">>)
         THEN "OFFLINE"
    ELSE IF IconHas(ts, <<"o","n","l","i","n","e">>) \/ IconHas(ts, <<"g","r","e","e","n">>) \/ IconHas(ts, <<"_","1">>)
         THEN "ONLINE"
    ELSE IF IconHas(ts, <<"t","i","m","e","o","u","t">>) \/ IconHas(ts, <<"y","e","l","l","o","w">>) \/ IconHas(ts, <<"o","r","a","n","g","e">>)
         THEN "TIMEOUT"
    ELSE IF IconHas(ts, <<"d","i","s","c","o","n","n","e","c","t">>) \/ IconHas(ts, <<"g","r","e","y">>) \/ IconHas(ts, <<"g","r","a","y">>)
         THEN "DISCONNECT"
    ELSE IF IconHas(ts, <<"r","e","p","a","i","r">>) \/ IconHas(ts, <<"m","a","i","n","t","e","n","a","n","c","e">>) THEN "REPAIR"
    ELSE "UNKNOWN"

IconStatus(ts) ==
    IF \E t \in ts : RainGaugeIcon(t) THEN "UNKNOWN"
    ELSE IF IconHas(ts, <<"o","n","l","i","n","e">>) \/ IconHas(ts, <<"g","r","e","e","n">>) \/ IconHas(ts, <<"_","1">>)
         THEN "ONLINE"
    ELSE IF IconHas(ts, <<"o","f","f","l","i","n","e">>) \/ IconHas(ts, <<"r","e","d">>) \/ IconHas(ts, <<"_","0">>)
         THEN "OFFLINE"
    ELSE IF IconHas(ts, <<"t","i","m","e","o","u","t">>) \/ IconHas(ts, <<"y","e","l","l","o","w">>) \/ IconHas(ts, <<"o","r","a","n","g","e">>)
         THEN "TIMEOUT"
    ELSE IF IconHas(ts, <<"d","i","s","c","o","n","n","e","c","t">>) \/ IconHas(ts, <<"g","r","e","y">>) \/ IconHas(ts, <<"g","r","a","y">>)
         THEN "DISCONNECT"
    ELSE IF IconHas(ts, <<"r","e","p","a","i","r">>) \/ IconHas(ts, <<"m","a","i","n","t","e","n","a","n","c","e">>) THEN "REPAIR"
    ELSE "UNKNOWN"

parse_status_from_icon(icon_data) ==
    IF ~Truthy(icon_data) THEN "UNKNOWN" ELSE IconStatus(IconTexts(icon_data))

(* ------------------------- _parse_info_html ---------------------------- *)

\* The character references of the pages of the model, and what
\* html.unescape puts in their place.
CharRefs ==
    << <<<<"&","a","m","p",";">>, <<"&">>>>, <<<<"&","l","t",";">>, <<"<">>>>, <<<<"&","g","t",";">>, <<">">>>>,
       <<<<"&","q","u","o","t",";">>, <<"\"">> >>, <<<<"&","#","3","9",";">>, <<"'">>>> >>

\* The reference that starts at 0-based index p of s, 0 for none.
CharRefAt(s, p) ==
    IF s[p + 1] = "&" /\ \E e \in DOMAIN CharRefs : StartsWithAt(s, CharRefs[e][1], p)
    THEN CHOOSE e \in DOMAIN CharRefs : StartsWithAt(s, CharRefs[e][1], p)
    ELSE 0

CharRefMatch(p, e) == [at |-> p, len |-> Len(CharRefs[e][1]), by |-> CharRefs[e][2]]

UnescapeAt(s, ps) ==
    Substitute(s, [j \in DOMAIN ps |-> CharRefMatch(ps[j], CharRefAt(s, ps[j]))])

\* html.unescape(s)
Unescape(s) ==
    UnescapeAt(s, SortedSeq({p \in 0..(Len(s) - 1) : CharRefAt(s, p) # 0}))

\* The match of <br\s*/?> that starts at 0-based index p goes on at index
\* q, after the whitespace: where it ends, 0 for no match.
BrTail(s, q) ==
    IF q < Len(s) /\ s[q + 1] = ">" THEN q + 1
    ELSE IF q + 1 < Len(s) /\ s[q + 1] = "/" /\ s[q + 2] = ">" THEN q + 2
    ELSE 0

BrEnd(s, p) ==
    IF /\ p + 4 <= Len(s)
       /\ s[p + 1] = "<"
       /\ LowerChar(s[p + 2]) = "b"
       /\ LowerChar(s[p + 3]) = "r"
    THEN BrTail(s, p + 3 + SpaceRun(s, p + 3))
    ELSE 0

BrSubAt(s, ps) ==
    Substitute(s, [j \in DOMAIN ps |->
                     [at |-> ps[j], len |-> BrEnd(s, ps[j]) - ps[j], by |-> <<"\n">>]])

\* re.sub(r'<br\s*/?>', '\n', s, flags=re.I)
BrSub(s) == BrSubAt(s, SortedSeq({p \in 0..(Len(s) - 1) : BrEnd(s, p) > 0}))

\* Where <[^>]+> ends when it is tried at 0-based index p, 0 for no match.
TagEnd(s, p) ==
    IF s[p + 1] = "<" /\ p + 2 <= Len(s) /\ s[p + 2] # ">"
    THEN FirstFrom(s, {">"}, p + 3)
    ELSE 0

\* re.sub goes from left to right: a match is not looked for inside an
\* earlier one.
TagStarts(s) ==
    {p \in 0..(Len(s) - 1) :
        /\ TagEnd(s, p) > 0
        /\ \A q \in 0..(p - 1) : TagEnd(s, q) <= p}

TagStripAt(s, ps) ==
    Substitute(s, [j \in DOMAIN ps |->
                     [at |-> ps[j], len |-> TagEnd(s, ps[j]) - ps[j], by |-> <<>>]])

\* re.sub(r'<[^>]+>', '', s)
TagStrip(s) == TagStripAt(s, SortedSeq(TagStarts(s)))

\* The line boundaries str.splitlines() sees in the texts of the model.
LineBreaks == {"\n", "\r"}

\* [ln.strip() for ln in s.splitlines() if ln.strip()]
LinesOf(s) ==
    StrippedNonEmpty(Fields(s, SortedSeq({p \in DOMAIN s : s[p] \in LineBreaks})))

\* The match of k\s*[:]\s*(.+), ignoring case, that starts at 0-based index p
\* of the stripped line ln: where group 1 starts, -1 for no match.
LabelValue(ln, r) == IF r < Len(ln) THEN r ELSE -1

LabelColon(ln, q) ==
    IF q < Len(ln) /\ ln[q + 1] = ":" THEN LabelValue(ln, q + 1 + SpaceRun(ln, q + 1))
    ELSE -1

LabelAt(ln, k, p) ==
    IF /\ p + Len(k) <= Len(ln)
       /\ \A i \in 1..Len(k) : UpperChar(ln[p + i]) = UpperChar(k[i])
    THEN LabelColon(ln, p + Len(k) + SpaceRun(ln, p + Len(k)))
    ELSE -1

\* re.search: the leftmost match.
LabelSearch(ln, k) ==
    IF \E p \in 0..Len(ln) : LabelAt(ln, k, p) >= 0
    THEN LabelAt(ln, k, CHOOSE p \in 0..Len(ln) :
                          /\ LabelAt(ln, k, p) >= 0
                          /\ \A j \in 0..(p - 1) : LabelAt(ln, k, j) < 0)
    ELSE -1

\* The mutation of find: the last line that matches answers.
findLast(lines, k) ==
    IF \E i \in DOMAIN lines : LabelSearch(lines[i], k) >= 0
    THEN PyStr(Strip(Slice(
            lines[CHOOSE i \in DOMAIN lines :
                     /\ LabelSearch(lines[i], k) >= 0
                     /\ \A j \in (i + 1)..Len(lines) : LabelSearch(lines[j], k) < 0],
            LabelSearch(lines[CHOOSE i \in DOMAIN lines :
                     /\ LabelSearch(lines[i], k) >= 0
                     /\ \A j \in (i + 1)..Len(lines) : LabelSearch(lines[j], k) < 0], k),
            Len(lines[CHOOSE i \in DOMAIN lines :
                     /\ LabelSearch(lines[i], k) >= 0
                     /\ \A j \in (i + 1)..Len(lines) : LabelSearch(lines[j], k) < 0]))))
    ELSE PyNone

RECURSIVE find(_, _)
RECURSIVE FindIn(_, _, _)
FindIn(lines, k, r) ==
    IF r >= 0 THEN PyStr(Strip(Slice(Head(lines), r, Len(Head(lines)))))
    ELSE find(Tail(lines), k)

\* find(k): m.group(1).strip() of the first line that matches, or None
find(lines, k) ==
    IF lines = <<>> THEN PyNone ELSE FindIn(lines, k, LabelSearch(Head(lines), k))

\* Whether [+-]?\d+ matches at 0-based index i.
SignedNumberStartsAt(s, i) ==
    /\ i < Len(s)
    /\ \/ IsDigit(s[i + 1])
       \/ s[i + 1] \in {"+", "-"} /\ i + 1 < Len(s) /\ IsDigit(s[i + 2])

FirstSignedNumber(s) ==
    IF \E i \in 0..(Len(s) - 1) : SignedNumberStartsAt(s, i)
    THEN CHOOSE i \in 0..(Len(s) - 1) :
            /\ SignedNumberStartsAt(s, i)
            /\ \A j \in 0..(i - 1) : ~SignedNumberStartsAt(s, j)
    ELSE -1

\* fnum(v): the first number of v, or None
fnum(v) ==
    IF ~Truthy(v) THEN PyNone ELSE FloatAt(v.val, FirstSignedNumber(v.val))

\* a or b
OrElse(a, b) == IF Truthy(a) THEN a ELSE b

InfoOfLines(lines) ==
    [code |-> find(lines, <<"C","o","d","e">>),
     rain |-> find(lines, <<"R","a","i","n">>),
     date |-> find(lines, <<"D","a","t","e">>),
     temperature_c |-> fnum(OrElse(find(lines, <<"T","e","m","p","e","r","a","t","u","r","e">>), find(lines, <<"T","e","m","p">>))),
     humidity_pct |-> fnum(find(lines, <<"H","u","m","i","d","i","t","y">>)),
     battery_v |-> fnum(find(lines, <<"B","a","t","t","e","r","y">>)),
     solar_volt_v |-> fnum(OrElse(find(lines, <<"S","o","l","a","r"," ","P","a","n","e","l","s"," ","V","o","l","t","a","g","e","s">>),
                                  find(lines, <<"S","o","l","a","r">>))),
     status_text |-> find(lines, <<"S","t","a","t","u","s">>)]

\* _parse_info_html(info_html) raises: html.unescape and re.sub take a str,
\* and a truthy number or dict is a TypeError.
InfoRaises(info_html) == Truthy(info_html) /\ ~IsStr(info_html)

\* _parse_info_html(info_html) of a str or a falsy value: the dict, <<>>
\* for the empty one
_parse_info_html(info_html) ==
    IF ~Truthy(info_html) THEN <<>>
    ELSE InfoOfLines(LinesOf(TagStrip(BrSub(Unescape(info_html.val)))))

(* ------------------------- parse_setmap_from_html ---------------------- *)

SetMapWord == <<"S","e","t","M","a","p">>

\* The match of SetMap\s*\( that starts at 0-based index p goes on at index
\* q, after the whitespace: m.end(), -1 for no match.
CallParen(h, q) == IF q < Len(h) /\ h[q + 1] = "(" THEN q + 1 ELSE -1

CallEnd(h, p) ==
    IF StartsWithAt(h, SetMapWord, p)
    THEN CallParen(h, p + Len(SetMapWord) + SpaceRun(h, p + Len(SetMapWord)))
    ELSE -1

\* re.finditer: m.end() of the first match that starts at or after index
\* from, -1 when there is none.
NextCall(h, from) ==
    IF \E p \in from..Len(h) : CallEnd(h, p) >= 0
    THEN CallEnd(h, CHOOSE p \in from..Len(h) :
                       /\ CallEnd(h, p) >= 0
                       /\ \A q \in from..(p - 1) : CallEnd(h, q) < 0)
    ELSE -1

\* depth after the characters h[start..j] (0-based) of the balancing loop
DepthAfter(h, start, j) ==
    1 + Cardinality({k \in start..j : h[k + 1] = "("})
      - Cardinality({k \in start..j : h[k + 1] = ")"})

Closes(h, start, j) == h[j + 1] = ")" /\ DepthAfter(h, start, j) = 0

\* i when the balancing loop ends: one past the parenthesis that brings
\* depth to 0, len(html) when there is none.
CloseIndex(h, start) ==
    IF \E j \in start..(Len(h) - 1) : Closes(h, start, j)
    THEN 1 + CHOOSE j \in start..(Len(h) - 1) :
                /\ Closes(h, start, j)
                /\ \A k \in start..(j - 1) : ~Closes(h, start, k)
    ELSE Len(h)

\* inner = html[start:i-1].strip()
Inner(h, start) == Strip(Slice(h, start, CloseIndex(h, start) - 1))

\* parsed: each token cleaned and coerced
ParsedArgs(args) == [j \in DOMAIN args |-> Coerce(_clean_str(args[j]))]

\* count == 0 and len(parsed) > 0 and str(parsed[0]).lower() == 'lat': the
\* str() of a number or of a dict is never 'lat'.
IsHeader(parsed, cnt) ==
    /\ cnt = 0
    /\ Len(parsed) > 0
    /\ parsed[1].kind = "str"
    /\ Lower(parsed[1].val) = <<"l","a","t">>

\* parsed[n - 1] if len(parsed) > n - 1 else None
Arg(parsed, n) == IF Len(parsed) >= n THEN parsed[n] ELSE PyNone

Positional(parsed) ==
    [lat |-> Arg(parsed, 1), lon |-> Arg(parsed, 2),
     icon_config |-> Arg(parsed, 3), marker_type |-> Arg(parsed, 4),
     image_path |-> Arg(parsed, 5), name |-> Arg(parsed, 6),
     info_html |-> Arg(parsed, 7), icon_filename |-> Arg(parsed, 8),
     code |-> Arg(parsed, 9), radar_radius |-> Arg(parsed, 10),
     label_lat |-> Arg(parsed, 11), label_lon |-> Arg(parsed, 12),
     radar_type |-> Arg(parsed, 13), radar_name |-> Arg(parsed, 14),
     radar_address |-> Arg(parsed, 15)]

\* st["status_from_icon"] = parse_status_from_icon(st.get("icon_filename"))
WithIcon(st) ==
    Merge(st, [status_from_icon |-> parse_status_from_icon(st.icon_filename)])

\* The mutation of WithInfo: a positional code is kept.
WithInfoKeepCode(st) ==
    IF Truthy(st.code)
    THEN Merge(Merge(st, _parse_info_html(st.info_html)), [code |-> st.code])
    ELSE Merge(st, _parse_info_html(st.info_html))

\* st.update(_parse_info_html(st["info_html"]))
WithInfo(st) == Merge(st, _parse_info_html(st.info_html))

\* st["station_code"] = st.get("code")
WithCode(st) == Merge(st, [station_code |-> st.code])

\* st["status"] = determine_final_status(st, all_status_dict)
WithStatus(st, d, t) == Merge(st, [status |-> determine_final_status(st, d, t)])

\* The outcome of one pass of the loop over the matches: the list stations,
\* count, and the exception raised, if any.
Parsed(recs, cnt) == [records |-> recs, count |-> cnt, err |-> "none"]

ParseRaise(recs, cnt, e) == [records |-> recs, count |-> cnt, err |-> e]

ParseCoded(recs, cnt, d, t, st) ==
    IF FleetGetRaises(st, d) THEN ParseRaise(recs, cnt, "TypeError")
    ELSE Parsed(Append(recs, WithStatus(st, d, t)), cnt + 1)

ParseStation(recs, cnt, d, t, st) ==
    IF InfoRaises(st.info_html) THEN ParseRaise(recs, cnt, "TypeError")
    ELSE ParseCoded(recs, cnt, d, t, WithCode(WithInfo(st)))

ParseArgs(recs, cnt, d, t, parsed) ==
    IF IsHeader(parsed, cnt) THEN Parsed(recs, cnt + 1)
    ELSE ParseStation(recs, cnt, d, t, WithIcon(Positional(parsed)))

\* if not inner: continue
ParseInner(recs, cnt, d, t, inner) ==
    IF inner = <<>> THEN Parsed(recs, cnt)
    ELSE ParseArgs(recs, cnt, d, t, ParsedArgs(_tokenize_args(inner)))

ApplyParse(end, res) ==
    /\ pos' = end
    /\ records' = res.records
    /\ count' = res.count
    /\ err' = res.err
    /\ pc' = IF res.err = "none" THEN "parse" ELSE "raised"

ParseMatch(end) ==
    /\ end >= 0
    /\ ApplyParse(end, ParseInner(records, count, all_status_dict, now,
                                  Inner(html, end)))

\* for m in re.finditer(r'SetMap\s*\(', html): one match per step; finditer
\* goes on from the end of the match, not from the end of the call.
ParseCall ==
    /\ pc = "parse"
    /\ ParseMatch(NextCall(html, pos))
    /\ UNCHANGED <<arg, result, locals, html, all_status_dict, now, station, status, idx,
                   out, cleaned>>

\* return stations, and clean_data(raw) starts
ParseReturn ==
    /\ pc = "parse"
    /\ NextCall(html, pos) < 0
    /\ pc' = "clean"
    /\ UNCHANGED <<arg, result, locals, html, all_status_dict, now, station, status, pos,
                   count, records, idx, out, cleaned, err>>

(* ------------------------- pages --------------------------------------- *)

HeaderCall == <<"S","e","t","M","a","p","(","'","l","a","t","'",",","'","l","o","n","'",",","'","i","c","o","n","'",")">>

\* The first six arguments of a data call.
CallHead == <<"S","e","t","M","a","p","(","1","3",".","1",",","1","0","0",".","5",",","{","w",":","1","}",",","1",",","'","i","c","o","n",".","p","n","g","'",",","'","S","t","a","t","i","o","n"," ","A","'",",">>

BlobG2002 == <<"'","C","o","d","e",":"," ","G","2","0","0","2","<","b","r",">","R","a","i","n",":"," ","1",".","2"," ","m","m","<","b","r",">","D","a","t","e",":"," ","0","1","/","0","1","/","2","0","2","4"," ","0","9",":","0","0","'">>

BlobG1001utc == <<"'","<","b",">","C","o","d","e","<","/","b",">",":"," ","G","1","0","0","1","<","b","r","/",">","R","a","i","n",":"," ","1","2",".","5","0"," ","m","m","<","B","R",">","D","a","t","e",":"," ","0","1","/","0","1","/","2","0","2","4"," ","1","1",":","0","0"," ","U","T","C","'">>

BlobG2002late == <<"'","D","a","t","e",":"," ","0","1","/","0","1","/","2","0","2","4"," ","1","1",":","3","0","<","b","r",">","C","o","d","e"," ",":"," ","G","2","0","0","2","<","b","r",">","R","a","i","n",":"," ","0"," ","m","m","'">>

BlobOffline == <<"'","C","o","d","e",":"," ","G","1","0","0","1","<","b","r",">","R","a","i","n",":"," ","3"," ","m","m","<","b","r",">","D","a","t","e",":"," ","0","1","/","0","1","/","2","0","2","4"," ","1","0",":","0","0","<","b","r",">","S","t","a","t","u","s",":"," ","O","f","f","l","i","n","e","'">>

BlobNoCode == <<"'","R","a","i","n",":"," ","3"," ","m","m","'">>

BlobEmpty == <<"'","'">>

BlobNumber == <<"7">>

\* Blobs with a Code, a Rain and a parseable Date line and no Status line.
FullBlobs == {BlobG2002, BlobG1001utc, BlobG2002late}

Blobs == FullBlobs \cup {BlobOffline, BlobNoCode, BlobEmpty, BlobNumber}

IconGreen == <<"'","g","r","e","e","n","_","o","n","l","i","n","e",".","p","n","g","'">>

IconRed == <<"'","m","a","r","k","e","r","_","r","e","d",".","p","n","g","'">>

IconRepair == <<"'","r","e","p","a","i","r",".","p","n","g","'">>

IconGauge == <<"'","r","a","i","n","g","a","u","g","e","-","1","2",".","p","n","g","'">>

IconPlain == <<"'","p","i","n",".","p","n","g","'">>

DefiniteIcons == {IconGreen, IconRed, IconRepair}

Icons == DefiniteIcons \cup {IconGauge, IconPlain}

ArgG2002 == <<"'","G","2","0","0","2","'">>

ArgNumber == <<"1","0","0","1">>

ArgOptions == <<"{","i","d",":","7","}">>

CodeArgs == {ArgG2002, ArgNumber, ArgOptions}

DataCall(blob, icon, code) ==
    CallHead \o blob \o <<",">> \o icon \o <<",">> \o code \o <<",","5",")",";">>

DataCalls == {DataCall(b, i, c) : b \in Blobs, i \in Icons, c \in CodeArgs}

\* The calls that pages with two data calls are made of.
PairCalls ==
    {DataCall(b, IconGauge, ArgG2002) : b \in FullBlobs}
      \cup {DataCall(BlobEmpty, IconRed, ArgG2002),
            <<"S","e","t","M","a","p","("," ",")",";">>, <<"S","e","t","M","a","p"," ","(","'","L","A","T","'",",","1",")",";">>, <<"S","e","t","M","a","p","(","1",",","(","2",")",",",",","'","x","'",",">>}

\* The calls that come before the header call in pages where it is not the
\* first call: calls without arguments, and a data call.
LeadCalls ==
    {<<"S","e","t","M","a","p","("," ",")",";">>, <<"S","e","t","M","a","p","(",")",";","S","e","t","M","a","p"," ","("," ",")",";">>,
     DataCall(BlobG1001utc, IconGreen, ArgG2002)}

Pages ==
    {h \o <<" ","v","a","r"," ","m",";"," ">> \o c : h \in {HeaderCall, <<>>}, c \in DataCalls}
      \cup {HeaderCall \o c1 \o c2 : c1, c2 \in PairCalls}
      \cup {c \o HeaderCall \o DataCall(b, IconPlain, ArgG2002) :
               c \in LeadCalls, b \in FullBlobs}
      \cup {<<>>, <<"<","h","t","m","l",">","n","o"," ","m","a","p","<","/","h","t","m","l",">">>}

\* The fleet tables fetch_all_stations_status hands to the extractor.
PipelineTables ==
    {PyNone, PyMap(<<>>),
     PyMap([c \in {CodeG1, CodeG2} |->
              IF c = CodeG1 THEN FleetEntry("UNKNOWN") ELSE FleetEntry("TIMEOUT")])}

(* ------------------------- the pipeline -------------------------------- *)

\* raw = parse_setmap_from_html(html, all_status_dict); clean_data(raw)
Init ==
    /\ arg = <<>>
    /\ result = PyNone
    /\ locals = <<>>
    /\ pc = "parse"
    /\ html \in Pages
    /\ all_status_dict \in PipelineTables
    /\ now = Noon
    /\ pos = 0
    /\ count = 0
    /\ records = <<>>
    /\ idx = 0
    /\ out = <<>>
    /\ cleaned = <<>>
    /\ err = "none"
    /\ station = NoStation
    /\ status = NoStatus

Next == ParseCall \/ ParseReturn \/ CleanStep \/ CleanReturn

Spec == Init /\ [][Next]_vars

(* ------------------------- calls of the pure functions ----------------- *)

\* The strings of at most n characters over an alphabet.
Texts(alphabet, n) == UNION {[1..k -> alphabet] : k \in 0..n}

\* The variables a call of a pure function leaves alone.
pipeline == <<locals, html, all_status_dict, now, station, status, pos, count,
              records, idx, out, cleaned, err>>

\* No page, no record: the state a pure function is called in.
NoPipeline ==
    /\ locals = <<>>
    /\ html = <<>>
    /\ all_status_dict = PyNone
    /\ now = Noon
    /\ station = NoStation
    /\ status = NoStatus
    /\ pos = 0
    /\ count = 0
    /\ records = <<>>
    /\ idx = 0
    /\ out = <<>>
    /\ cleaned = <<>>
    /\ err = "none"

(* ------------------------- calls of _tokenize_args --------------------- *)

MaxTokenLen == 5

TokenChars == {"a", ",", "'", "\"", "{", "}", "\\", " "}

ExampleArgs == <<"'","a",",","b","'",","," ","{","x",":","1",",","y",":","2","}",","," ","3">>

TokenTexts == Texts(TokenChars, MaxTokenLen) \cup {ExampleArgs}

InitTokenize ==
    /\ pc = "call"
    /\ arg \in TokenTexts
    /\ result = PyNone
    /\ NoPipeline

\* args = _tokenize_args(inner)
Tokenize ==
    /\ pc = "call"
    /\ result' = _tokenize_args(arg)
    /\ pc' = "tokenized"
    /\ UNCHANGED <<arg, pipeline>>

NextTokenize == Tokenize

SpecTokenize == InitTokenize /\ [][NextTokenize]_vars

(* ------------------------- calls of the coercion ----------------------- *)

MaxCoerceLen == 4

CoerceChars == {"'", "\"", "4", "2", ".", "-", "+", "G", "{", "}", ":", "\\"}

\* Tokens longer than the enumerated ones: codes, numbers, an object
\* literal, quoted and bare.
LongTokens ==
    {<<"'","G","1","0","0","1","'">>, <<"G","1","0","0","1">>, <<"'","1","0","0","1","'">>, <<"1","0","0","1">>, <<"\"","4",".","5","\"">>, <<"1","e","3">>,
     <<"i","n","f">>, <<"n","a","n">>, <<"1","_","0","0","0">>, <<"'","{","i","d",":","7","}","'">>, <<"{","i","d",":","7","}">>, <<"'","i","t","\\","'","s","'">>}

\* The tokens _tokenize_args hands on are stripped and not empty.
CoerceTokens ==
    {t \in Texts(CoerceChars, MaxCoerceLen) \cup LongTokens : t # <<>>}

InitCoerce ==
    /\ pc = "call"
    /\ arg \in CoerceTokens
    /\ result = PyNone
    /\ NoPipeline

\* clean = [_clean_str(a) for a in args]; parsed = [... for a in clean]
CoerceToken ==
    /\ pc = "call"
    /\ result' = Coerce(_clean_str(arg))
    /\ pc' = "coerced"
    /\ UNCHANGED <<arg, pipeline>>

NextCoerce == CoerceToken

SpecCoerce == InitCoerce /\ [][NextCoerce]_vars

(* ------------------------- calls of parse_status_from_icon ------------- *)

\* The keywords of the five groups, in the order of the chain.
IconGroups ==
    << [status |-> "ONLINE", keywords |-> {<<"o","n","l","i","n","e">>, <<"g","r","e","e","n">>, <<"_","1">>}],
       [status |-> "OFFLINE", keywords |-> {<<"o","f","f","l","i","n","e">>, <<"r","e","d">>, <<"_","0">>}],
       [status |-> "TIMEOUT", keywords |-> {<<"t","i","m","e","o","u","t">>, <<"y","e","l","l","o","w">>, <<"o","r","a","n","g","e">>}],
       [status |-> "DISCONNECT", keywords |-> {<<"d","i","s","c","o","n","n","e","c","t">>, <<"g","r","e","y">>, <<"g","r","a","y">>}],
       [status |-> "REPAIR", keywords |-> {<<"r","e","p","a","i","r">>, <<"m","a","i","n","t","e","n","a","n","c","e">>}] >>

IconKeywords == UNION {IconGroups[g].keywords : g \in DOMAIN IconGroups}

\* What a filename of the model starts with: a numbered gauge icon with a
\* hyphen or an underscore, in lower or mixed case, a gauge icon without a
\* number, and other names.
IconStems ==
    {<<"r","a","i","n","g","a","u","g","e","-","1","2">>, <<"r","a","i","n","g","a","u","g","e","_","1","2">>, <<"R","a","i","n","G","a","u","g","e","-","7">>, <<"r","a","i","n","g","a","u","g","e","-">>,
     <<"g","a","u","g","e","-","1","2">>, <<"p","i","n">>, <<"M","a","r","k","e","r">>, <<>>}

\* A filename: a stem, at most two keywords, each after a hyphen, and .png
\* or nothing.
IconTails ==
    {<<>>} \cup {<<"-">> \o k : k \in IconKeywords}
           \cup {<<"-">> \o k1 \o <<"-">> \o k2 : k1, k2 \in IconKeywords}
           \cup {<<"-","G","R","E","E","N">>, <<"-","O","f","f","l","i","n","e">>}

IconNames ==
    {stem \o tail \o ext : stem \in IconStems, tail \in IconTails,
                            ext \in {<<>>, <<".","p","n","g">>}}

InitIcon ==
    /\ pc = "call"
    /\ arg \in IconNames
    /\ result = PyNone
    /\ NoPipeline

\* st["status_from_icon"] = parse_status_from_icon(st.get("icon_filename"))
ClassifyIcon ==
    /\ pc = "call"
    /\ status' = parse_status_from_icon(PyStr(arg))
    /\ pc' = "classified"
    /\ UNCHANGED <<arg, result, locals, html, all_status_dict, now, station, pos, count,
                   records, idx, out, cleaned, err>>

NextIcon == ClassifyIcon

SpecIcon == InitIcon /\ [][NextIcon]_vars

(* ------------------------- calls of _parse_options --------------------- *)

MaxPairs == 3

OptionKeys == {<<"a">>, <<"'","b","'">>, <<"\"","c","\"">>, <<" ","i","d"," ">>}

OptionValues == {<<"1">>, <<"4",".","5">>, <<" ","x">>, <<>>}

OptionPairs == {k \o <<":">> \o v : k \in OptionKeys, v \in OptionValues}

\* The pairs of a list with commas between them.
RECURSIVE JoinPairs(_)
JoinPairs(ps) ==
    IF Len(ps) = 1 THEN ps[1] ELSE ps[1] \o <<",">> \o JoinPairs(Tail(ps))

\* Brace-delimited tokens whose body is a flat list of 1 to MaxPairs
\* key:value pairs.
OptionTokens ==
    UNION {{<<"{">> \o JoinPairs(ps) \o <<"}">> : ps \in [1..n -> OptionPairs]} :
             n \in 1..MaxPairs}

InitOptions ==
    /\ pc = "call"
    /\ arg \in OptionTokens
    /\ result = PyNone
    /\ NoPipeline

\* _parse_options(a)
ParseOptions ==
    /\ pc = "call"
    /\ result' = _parse_options(arg)
    /\ pc' = "parsed"
    /\ UNCHANGED <<arg, pipeline>>

NextOptions == ParseOptions

SpecOptions == InitOptions /\ [][NextOptions]_vars

(* ------------------------- the loop of _tokenize_args ------------------ *)

\* The variables the loop of a function leaves alone; its own are in locals.
globals == <<html, all_status_dict, now, station, status, pos, count,
             records, idx, out, cleaned, err>>

\* args = []; cur = []; i = 0; state = None; brace_depth = 0
TokenLocals ==
    [i |-> 0, state |-> "none", brace_depth |-> 0, cur |-> <<>>, args |-> <<>>]

\* The mutation of WithToken: the token is appended whatever it is.
WithTokenAlways(args, cur) == Append(args, Strip(cur))

\* token = ''.join(cur).strip(); if token: args.append(token)
WithToken(args, cur) ==
    IF Strip(cur) # <<>> THEN Append(args, Strip(cur)) ELSE args

\* The mutation of LoopComma: the comma branch goes back to the head of the
\* loop without i += 1.
LoopCommaStaysPut(l) ==
    [l EXCEPT !.args = WithToken(@, l.cur), !.cur = <<>>]

\* state is None and c == ',': the token ends; i += 1; continue
LoopComma(l) ==
    [l EXCEPT !.args = WithToken(@, l.cur), !.cur = <<>>, !.i = @ + 1]

\* state is None
LoopOutside(l, c) ==
    IF c \in {"'", "\""} THEN [l EXCEPT !.state = c, !.cur = Append(@, c), !.i = @ + 1]
    ELSE IF c = "{" THEN
        [l EXCEPT !.state = "{", !.brace_depth = 1, !.cur = Append(@, c), !.i = @ + 1]
    ELSE IF c = "," THEN LoopComma(l)
    ELSE [l EXCEPT !.cur = Append(@, c), !.i = @ + 1]

\* state in ("'", '"'): c == state and (i == 0 or s[i-1] != '\\')
LoopQuoted(l, c, s) ==
    [l EXCEPT !.cur = Append(@, c),
              !.state = IF c = l.state /\ (l.i = 0 \/ s[l.i] # "\\") THEN "none" ELSE @,
              !.i = @ + 1]

\* inside braces
LoopBraced(l, c) ==
    [l EXCEPT !.cur = Append(@, c),
              !.brace_depth = BraceDepthAfter(@, c),
              !.state = IF BraceDepthAfter(l.brace_depth, c) = 0 THEN "none" ELSE @,
              !.i = @ + 1]

\* One pass of the body of `while i < L`, on c = s[i].
LoopBody(l, s) ==
    IF l.state = "none" THEN LoopOutside(l, s[l.i + 1])
    ELSE IF l.state \in {"'", "\""} THEN LoopQuoted(l, s[l.i + 1], s)
    ELSE LoopBraced(l, s[l.i + 1])

MaxLoopLen == 4

LoopTexts == Texts(TokenChars, MaxLoopLen) \cup {ExampleArgs}

InitTokenLoop ==
    /\ pc = "loop"
    /\ arg \in LoopTexts
    /\ locals = TokenLocals
    /\ result = <<>>
    /\ html = <<>>
    /\ all_status_dict = PyNone
    /\ now = Noon
    /\ station = NoStation
    /\ status = NoStatus
    /\ pos = 0
    /\ count = 0
    /\ records = <<>>
    /\ idx = 0
    /\ out = <<>>
    /\ cleaned = <<>>
    /\ err = "none"

\* while i < L: one character per step
TokenLoopStep ==
    /\ pc = "loop"
    /\ locals.i < Len(arg)
    /\ locals' = LoopBody(locals, arg)
    /\ UNCHANGED <<pc, arg, result, globals>>

\* the last token, and return args
TokenLoopReturn ==
    /\ pc = "loop"
    /\ locals.i >= Len(arg)
    /\ result' = WithToken(locals.args, locals.cur)
    /\ pc' = "tokenized"
    /\ UNCHANGED <<arg, locals, globals>>

NextTokenLoop == TokenLoopStep \/ TokenLoopReturn

\* The interpreter goes on with the loop while a step is possible.
SpecTokenLoop ==
    InitTokenLoop /\ [][NextTokenLoop]_vars /\ WF_vars(NextTokenLoop)

(* ------------------------- parse_status_from_image --------------------- *)

\* str(v) inside the f-string: the text of a str, None for None.
StrOf(v) == IF v.kind = "str" THEN v.val ELSE <<"N","o","n","e">>

\* combined = f"{src} {alt}".lower()
Combined(src, alt) == Lower(StrOf(src) \o <<" ">> \o StrOf(alt))

\* The mutation of ImageKeywordStatus: the offline group is tried first.
ImageKeywordStatusOfflineFirst(t) ==
    IF Contains(t, <<"o","f","f","l","i","n","e">>) \/ Contains(t, <<"r","e","d">>) THEN "OFFLINE"
    ELSE IF Contains(t, <<"o","n","l","i","n","e">>) \/ Contains(t, <<"g","r","e","e","n">>) \/ Contains(t, <<"n","o","r","m","a","l">>)
         THEN "ONLINE"
    ELSE IF Contains(t, <<"t","i","m","e","o","u","t">>) \/ Contains(t, <<"y","e","l","l","o","w">>) \/ Contains(t, <<"w","a","r","n","i","n","g">>)
         THEN "TIMEOUT"
    ELSE IF Contains(t, <<"d","i","s","c","o","n","n","e","c","t">>) \/ Contains(t, <<"g","r","e","y">>) \/ Contains(t, <<"g","r","a","y">>)
         THEN "DISCONNECT"
    ELSE IF Contains(t, <<"r","e","p","a","i","r">>) \/ Contains(t, <<"m","a","i","n","t","e","n","a","n","c","e">>) THEN "REPAIR"
    ELSE NoStatus

\* The mutation of ImageKeywordStatus: no repair group.
ImageKeywordStatusNoRepair(t) ==
    IF Contains(t, <<"o","n","l","i","n","e">>) \/ Contains(t, <<"g","r","e","e","n">>) \/ Contains(t, <<"n","o","r","m","a","l">>)
    THEN "ONLINE"
    ELSE IF Contains(t, <<"o","f","f","l","i","n","e">>) \/ Contains(t, <<"r","e","d">>) THEN "OFFLINE"
    ELSE IF Contains(t, <<"t","i","m","e","o","u","t">>) \/ Contains(t, <<"y","e","l","l","o","w">>) \/ Contains(t, <<"w","a","r","n","i","n","g">>)
         THEN "TIMEOUT"
    ELSE IF Contains(t, <<"d","i","s","c","o","n","n","e","c","t">>) \/ Contains(t, <<"g","r","e","y">>) \/ Contains(t, <<"g","r","a","y">>)
         THEN "DISCONNECT"
    ELSE NoStatus

\* The chain of keyword tests; NoStatus when it falls through.
ImageKeywordStatus(t) ==
    IF Contains(t, <<"o","n","l","i","n","e">>) \/ Contains(t, <<"g","r","e","e","n">>) \/ Contains(t, <<"n","o","r","m","a","l">>)
    THEN "ONLINE"
    ELSE IF Contains(t, <<"o","f","f","l","i","n","e">>) \/ Contains(t, <<"r","e","d">>) THEN "OFFLINE"
    ELSE IF Contains(t, <<"t","i","m","e","o","u","t">>) \/ Contains(t, <<"y","e","l","l","o","w">>) \/ Contains(t, <<"w","a","r","n","i","n","g">>)
         THEN "TIMEOUT"
    ELSE IF Contains(t, <<"d","i","s","c","o","n","n","e","c","t">>) \/ Contains(t, <<"g","r","e","y">>) \/ Contains(t, <<"g","r","a","y">>)
         THEN "DISCONNECT"
    ELSE IF Contains(t, <<"r","e","p","a","i","r">>) \/ Contains(t, <<"m","a","i","n","t","e","n","a","n","c","e">>) THEN "REPAIR"
    ELSE NoStatus

\* \w of a str pattern: letters, digits and the underscore.
IsWordChar(c) == c \in LowerSet \cup UpperSet \cup DigitSet \cup {"_", DotlessI, LongS}

\* re.I: two characters match when their upper-case forms are the same.
FoldEq(c, d) == UpperChar(c) = UpperChar(d)

StatusWord == <<"s","t","a","t","u","s">>

\* r'status[_-](\w+)' matches at the 0-based index p of t.
StatusMatchAt(t, p) ==
    /\ p + Len(StatusWord) + 2 <= Len(t)
    /\ \A k \in DOMAIN StatusWord : FoldEq(t[p + k], StatusWord[k])
    /\ t[p + Len(StatusWord) + 1] \in {"_", "-"}
    /\ IsWordChar(t[p + Len(StatusWord) + 2])

\* The run of word characters of t that starts at the 1-based index from.
WordRun(t, from) ==
    SubSeq(t, from, CHOOSE e \in from..Len(t) :
                       /\ \A k \in from..e : IsWordChar(t[k])
                       /\ e = Len(t) \/ ~IsWordChar(t[e + 1]))

\* match.group(1) of the first match
CapturedWord(t) ==
    WordRun(t, Len(StatusWord) + 2
                 + CHOOSE p \in 0..Len(t) :
                      StatusMatchAt(t, p) /\ \A q \in 0..(p - 1) : ~StatusMatchAt(t, q))

\* status_text in ["ONLINE", "OFFLINE", "TIMEOUT", "DISCONNECT", "REPAIR"]
KnownWord(w) ==
    CASE w = <<"O","N","L","I","N","E">> -> "ONLINE"
      [] w = <<"O","F","F","L","I","N","E">> -> "OFFLINE"
      [] w = <<"T","I","M","E","O","U","T">> -> "TIMEOUT"
      [] w = <<"D","I","S","C","O","N","N","E","C","T">> -> "DISCONNECT"
      [] w = <<"R","E","P","A","I","R">> -> "REPAIR"
      [] OTHER -> "UNKNOWN"

\* match = re.search(r'status[_-](\w+)', combined, re.I) and what follows
ImageFallback(t) ==
    IF \E p \in 0..Len(t) : StatusMatchAt(t, p)
    THEN KnownWord(Upper(CapturedWord(t)))
    ELSE "UNKNOWN"

ImageStatusOr(s, t) == IF s # NoStatus THEN s ELSE ImageFallback(t)

ImageStatus(t) == ImageStatusOr(ImageKeywordStatus(t), t)

parse_status_from_image(src, alt) ==
    IF ~Truthy(src) /\ ~Truthy(alt) THEN "UNKNOWN"
    ELSE ImageStatus(Combined(src, alt))

(* ------------------------- calls of parse_status_from_image ------------ *)

ImageKeywords ==
    {<<"o","n","l","i","n","e">>, <<"g","r","e","e","n">>, <<"n","o","r","m","a","l">>, <<"o","f","f","l","i","n","e">>, <<"r","e","d">>, <<"t","i","m","e","o","u","t">>,
     <<"y","e","l","l","o","w">>, <<"w","a","r","n","i","n","g">>, <<"d","i","s","c","o","n","n","e","c","t">>, <<"g","r","e","y">>, <<"g","r","a","y">>, <<"r","e","p","a","i","r">>,
     <<"m","a","i","n","t","e","n","a","n","c","e">>}

\* Image sources: none, the empty one, a keyword, two keywords, halves of
\* keywords, and names of the form status_<word>, two of them with a letter
\* outside ASCII in the word.
ImageSrcs ==
    {PyNone, PyStr(<<>>)}
      \cup {PyStr(<<"i","m","g","/">> \o k \o <<".","p","n","g">>) : k \in ImageKeywords}
      \cup {PyStr(k1 \o <<"-">> \o k2) : k1, k2 \in ImageKeywords}
      \cup {PyStr(<<"o","n">>), PyStr(<<"g","r","e">>), PyStr(<<"p","i","n",".","p","n","g">>),
            PyStr(<<"s","t","a","t","u","s","_","o","k",".","p","n","g">>), PyStr(<<"S","t","a","t","u","s","-","R","E","P","A","I","R">>),
            PyStr(<<"s","t","a","t","u","s","_">>), PyStr(<<"i","m","g","/","s","t","a","t","u","s","_","x","-","s","t","a","t","u","s","_","y">>),
            PyStr(<<"s","t","a","t","u","s","_","o","n","l">> \o <<DotlessI>> \o <<"n","e",".","p","n","g">>),
            PyStr(<<"s","t","a","t","u","s","-","d","i">> \o <<LongS>> \o <<"c","o","n","n","e","c","t">>)}

ImageAlts ==
    {PyNone, PyStr(<<>>), PyStr(<<"l","i","n","e">>), PyStr(<<"e","n">>), PyStr(<<"R","e","d">>),
     PyStr(<<"S","t","a","t","i","o","n"," ","N","O","R","M","A","L">>), PyStr(<<"s","t","a","t","u","s","_","t","i","m","e","o","u","t">>), PyStr(<<"o","k">>)}

InitImage ==
    /\ pc = "call"
    /\ arg \in ImageSrcs \X ImageAlts
    /\ result = PyNone
    /\ NoPipeline

\* status = parse_status_from_image(status_src, status_alt)
ClassifyImage ==
    /\ pc = "call"
    /\ status' = parse_status_from_image(arg[1], arg[2])
    /\ pc' = "classified"
    /\ UNCHANGED <<arg, result, locals, html, all_status_dict, now, station, pos,
                   count, records, idx, out, cleaned, err>>

NextImage == ClassifyImage

SpecImage == InitImage /\ [][NextImage]_vars

(* ------------------------- calls of _parse_info_html ------------------- *)

\* Lines of an info blob: a label with a value, with another case and a
\* space before the colon, without a value, inside a longer word, inside a
\* tag, twice on a line, and a line without a label.
InfoLines ==
    {<<"C","o","d","e",":"," ","G","1">>, <<"c","o","d","e"," ",":"," ","g","2">>, <<"C","O","D","E",":">>, <<"B","a","r","c","o","d","e",":","7">>, <<"R","a","i","n",":"," ","4",".","5"," ","m","m">>,
     <<"<","b",">","S","t","a","t","u","s","<","/","b",">",":"," ","N","o","r","m","a","l">>, <<"T","e","m","p",":"," ","2","1",".","5"," ","C">>, <<"T","e","m","p","e","r","a","t","u","r","e",":"," ","n","/","a">>,
     <<"S","t","a","t","i","o","n"," ","A">>, <<"C","o","d","e",":"," ","A"," ","C","o","d","e",":"," ","B">>, <<" "," ","D","a","t","e",":"," "," ","x"," "," ">>,
     <<"S","t","a","t","u","s",":","o","k"," ","&","a","m","p",";"," ","d","r","y">>}

InfoBreaks == {<<"<","b","r",">">>, <<"\n">>, <<"<","B","R"," ","/",">">>}

ShortInfoLines == {<<"C","o","d","e",":"," ","G","1">>, <<"c","o","d","e"," ",":"," ","g","2">>, <<"C","O","D","E",":">>, <<"B","a","r","c","o","d","e",":","7">>, <<"S","t","a","t","i","o","n"," ","A">>}

\* Info blobs: none, the empty one, one line, two lines on either kind of
\* break, three lines.
InfoBlobs ==
    {PyNone, PyStr(<<>>)}
      \cup {PyStr(l) : l \in InfoLines}
      \cup {PyStr(l1 \o b \o l2) : l1, l2 \in InfoLines, b \in InfoBreaks}
      \cup {PyStr(l1 \o <<"<","b","r",">">> \o l2 \o <<"\n">> \o l3) : l1, l2, l3 \in ShortInfoLines}

InitInfo ==
    /\ pc = "call"
    /\ arg \in InfoBlobs
    /\ result = <<>>
    /\ NoPipeline

\* info = _parse_info_html(st.get("info_html"))
ExtractInfo ==
    /\ pc = "call"
    /\ result' = _parse_info_html(arg)
    /\ pc' = "extracted"
    /\ UNCHANGED <<arg, locals, globals>>

NextInfo == ExtractInfo

SpecInfo == InitInfo /\ [][NextInfo]_vars

(* ------------------------- request_with_retry -------------------------- *)

\* retry_http_status=(500, 502, 503, 504)
retry_http_status == {500, 502, 503, 504}

\* What session.request does in one attempt: it returns a response or
\* raises an exception of the class name.
Response(code) == [kind |-> "response", status_code |-> code, name |-> "none"]

Raised(name) == [kind |-> "error", status_code |-> 0, name |-> name]

\* requests.exceptions.HTTPError(f"{resp.status_code} Server Error", response=resp)
HTTPError(resp) == [kind |-> "error", status_code |-> resp.status_code, name |-> "HTTPError"]

NoError == [kind |-> "none", status_code |-> 0, name |-> "none"]

\* except (Timeout, ConnectionError, HTTPError) as e
Caught(e) == e.kind = "error" /\ e.name \in {"Timeout", "ConnectionError", "HTTPError"}

\* attempt = 0; last_err = None; the requests made and the sleeps slept, as
\* multiples of base_sleep without the jitter, are kept for the record.
RetryLocals(m) ==
    [attempt |-> 0, last_err |-> NoError, max_attempts |-> m,
     requests |-> <<>>, sleeps |-> <<>>]

\* attempt += 1; resp = session.request(method, url, timeout=timeout, **kwargs)
Requested(l, o) == [l EXCEPT !.attempt = @ + 1, !.requests = Append(@, o)]

\* The mutation of Handled: the sleep is slept after the last attempt too.
HandledSleepsAlways(l, e) ==
    [l EXCEPT !.last_err = e, !.sleeps = Append(@, 2 ^ (l.attempt - 1))]

\* The except clause: last_err = e, and unless attempt >= max_attempts the
\* sleep of base_sleep * 2 ** (attempt - 1) plus jitter.
Handled(l, e) ==
    IF l.attempt >= l.max_attempts THEN [l EXCEPT !.last_err = e]
    ELSE [l EXCEPT !.last_err = e, !.sleeps = Append(@, 2 ^ (l.attempt - 1))]

\* The exception the try block ends with, NoError when it returns resp.
TryError(o) ==
    IF o.kind = "response"
    THEN IF o.status_code \in retry_http_status THEN HTTPError(o) ELSE NoError
    ELSE o

MaxAttempts == 3

StatusCodes == {200, 404, 500, 503}

RequestOutcomes ==
    {Response(c) : c \in StatusCodes}
      \cup {Raised(n) : n \in {"Timeout", "ConnectionError", "TooManyRedirects"}}

InitRetry ==
    /\ pc = "attempt"
    /\ locals \in {RetryLocals(m) : m \in 0..MaxAttempts}
    /\ result = NoError
    /\ arg = <<>>
    /\ html = <<>>
    /\ all_status_dict = PyNone
    /\ now = Noon
    /\ station = NoStation
    /\ status = NoStatus
    /\ pos = 0
    /\ count = 0
    /\ records = <<>>
    /\ idx = 0
    /\ out = <<>>
    /\ cleaned = <<>>
    /\ err = "none"

\* One pass of the loop in which the request returns a response that is not
\* retried: return resp.
RetryReturn ==
    /\ pc = "attempt"
    /\ locals.attempt < locals.max_attempts
    /\ \E o \in RequestOutcomes :
          /\ TryError(o) = NoError
          /\ locals' = Requested(locals, o)
          /\ result' = o
    /\ pc' = "returned"
    /\ UNCHANGED <<arg, globals>>

\* One pass of the loop in which the try block raises an exception the
\* except clause catches: the next pass after the sleep, or the break and
\* raise last_err.
RetryCaught ==
    /\ pc = "attempt"
    /\ locals.attempt < locals.max_attempts
    /\ \E o \in RequestOutcomes :
          /\ Caught(TryError(o))
          /\ locals' = Handled(Requested(locals, o), TryError(o))
          /\ IF locals.attempt + 1 >= locals.max_attempts
             THEN /\ pc' = "raised"
                  /\ err' = TryError(o).name
                  /\ result' = TryError(o)
             ELSE UNCHANGED <<pc, err, result>>
    /\ UNCHANGED <<arg, html, all_status_dict, now, station, status, pos, count,
                   records, idx, out, cleaned>>

\* One pass of the loop in which session.request raises an exception the
\* except clause does not catch.
RetryUncaught ==
    /\ pc = "attempt"
    /\ locals.attempt < locals.max_attempts
    /\ \E o \in RequestOutcomes :
          /\ TryError(o) # NoError
          /\ ~Caught(TryError(o))
          /\ locals' = Requested(locals, o)
          /\ err' = o.name
          /\ result' = o
    /\ pc' = "raised"
    /\ UNCHANGED <<arg, html, all_status_dict, now, station, status, pos, count,
                   records, idx, out, cleaned>>

\* The loop is not entered: raise RuntimeError(...), last_err being None.
RetryNoAttempt ==
    /\ pc = "attempt"
    /\ locals.attempt >= locals.max_attempts
    /\ locals.last_err = NoError
    /\ pc' = "raised"
    /\ err' = "RuntimeError"
    /\ UNCHANGED <<locals, result, arg, html, all_status_dict, now, station, status, pos,
                   count, records, idx, out, cleaned>>

NextRetry == RetryReturn \/ RetryCaught \/ RetryUncaught \/ RetryNoAttempt

\* session.request is given a timeout and time.sleep returns: a pass of the
\* loop that is begun is ended.
SpecRetry == InitRetry /\ [][NextRetry]_vars /\ WF_vars(NextRetry)

(* ------------------------- claims on the reconciler -------------------- *)

\* The record's code has an entry in the fleet-status table d.
HasFleetEntry(st, d) ==
    /\ d.kind = "map"
    /\ st.station_code.kind = "str"
    /\ st.station_code.val \in DOMAIN d.val

\* Step 1 applies: an entry whose status is not UNKNOWN.
FleetApplies(st, d) ==
    HasFleetEntry(st, d) /\ d.val[st.station_code.val].status # "UNKNOWN"

\* The upper-cased text holds the keyword.
HasKeyword(x, kw) == x.kind = "str" /\ Contains(Upper(x.val), kw)

HasOnlineKeyword(x) ==
    HasKeyword(x, KwOnline) \/ HasKeyword(x, KwNormal) \/ HasKeyword(x, KwActive)

HasAnyKeyword(x) ==
    \/ HasOnlineKeyword(x)
    \/ HasKeyword(x, KwOffline)
    \/ HasKeyword(x, KwTimeout)
    \/ HasKeyword(x, KwDisconnect)

IconDefinite(st) == st.status_from_icon \in Statuses \ {"UNKNOWN"}

\* The age in seconds, at 01/01/2024 12:00:00 UTC, of each parseable date of
\* the model, read off the calendar.
AgeAtNoon(d) ==
    CASE d = D1130 -> 1800
      [] d = D1115 -> 2700
      [] d = D0600 -> 21600
      [] d = D1145utc -> 900
      [] d = D1230 -> 0 - 1800
      [] d = DYesterday -> 46800

SecondsPastNoon(t) == IF t = Noon THEN 0 ELSE 1

\* C1: whenever the fleet-status table has an entry for the record's
\* station_code whose status is not UNKNOWN, determine_final_status returns
\* that entry's status, whatever the status text, the icon status and the
\* report date are.
C1_FleetEntryWins ==
    (pc = "reconciled" /\ FleetApplies(station, all_status_dict))
        => status = all_status_dict.val[station.station_code.val].status

\* C1 witness: icon ONLINE and a keyword in the text, fleet entry OFFLINE,
\* final status OFFLINE.
C1_Witness ==
    /\ pc = "reconciled"
    /\ station.status_from_icon = "ONLINE"
    /\ station.status_text = PyStr(TxtTimeoutDisconnect)
    /\ FleetApplies(station, all_status_dict)
    /\ all_status_dict.val[station.station_code.val].status = "OFFLINE"
    /\ status = "OFFLINE"

\* C2: with no applicable fleet entry, no keyword in the status text and an
\* UNKNOWN icon status, the final status is DISCONNECT for an absent or
\* unparseable report date, and otherwise ONLINE for a delay of at most 30
\* minutes, TIMEOUT for a delay above 30 minutes and at most 6 hours, and
\* DISCONNECT above 6 hours.
C2_StalenessFallback ==
    (/\ pc = "reconciled"
     /\ ~FleetApplies(station, all_status_dict)
     /\ ~HasAnyKeyword(station.status_text)
     /\ ~IconDefinite(station))
        => IF station.date.kind = "str" /\ station.date.val \in ParseableDates
           THEN LET delay == AgeAtNoon(station.date.val) + SecondsPastNoon(now)
                IN  status = IF delay <= 30 * 60 THEN "ONLINE"
                             ELSE IF delay <= 6 * 3600 THEN "TIMEOUT"
                             ELSE "DISCONNECT"
           ELSE status = "DISCONNECT"

\* C2 witness: a report 45 minutes old, nothing else to go by: TIMEOUT.
C2_Witness ==
    /\ pc = "reconciled"
    /\ all_status_dict = PyMap(<<>>)
    /\ station.status_text = PyNone
    /\ station.status_from_icon = "UNKNOWN"
    /\ station.date = PyStr(D1115)
    /\ now = Noon
    /\ status = "TIMEOUT"

\* C3: when step 1 does not apply, a status text holding a keyword decides
\* the final status, the keywords tried in the order ONLINE/NORMAL/ACTIVE,
\* OFFLINE, TIMEOUT, DISCONNECT on the upper-cased text, whatever the icon
\* and the date; a text with no keyword leaves the decision to the icon.
C3_StatusTextKeyword ==
    (pc = "reconciled" /\ ~FleetApplies(station, all_status_dict))
        => LET x == station.status_text
           IN  /\ HasOnlineKeyword(x) => status = "ONLINE"
               /\ (~HasOnlineKeyword(x) /\ HasKeyword(x, KwOffline))
                     => status = "OFFLINE"
               /\ (/\ ~HasOnlineKeyword(x)
                   /\ ~HasKeyword(x, KwOffline)
                   /\ HasKeyword(x, KwTimeout)) => status = "TIMEOUT"
               /\ (/\ ~HasOnlineKeyword(x)
                   /\ ~HasKeyword(x, KwOffline)
                   /\ ~HasKeyword(x, KwTimeout)
                   /\ HasKeyword(x, KwDisconnect)) => status = "DISCONNECT"
               /\ (~HasAnyKeyword(x) /\ IconDefinite(station))
                     => status = station.status_from_icon

\* C3 witness: a text holding both TIMEOUT and OFFLINE, a REPAIR icon and a
\* fresh date: OFFLINE.
C3_Witness ==
    /\ pc = "reconciled"
    /\ ~FleetApplies(station, all_status_dict)
    /\ station.status_text = PyStr(TxtOfflineTimeout)
    /\ station.status_from_icon = "REPAIR"
    /\ station.date = PyStr(D1145utc)
    /\ status = "OFFLINE"

\* C4: with a fleet-status mapping that is missing, empty, without an entry
\* for the code or with an UNKNOWN entry, and a status text that is absent
\* or holds no keyword, a definite icon status is the final status,
\* whatever the report date is.
C4_IconDecides ==
    (/\ pc = "reconciled"
     /\ ~FleetApplies(station, all_status_dict)
     /\ ~HasAnyKeyword(station.status_text)
     /\ IconDefinite(station))
        => status = station.status_from_icon

\* C4 witness: an UNKNOWN fleet entry, a text without keyword, an OFFLINE
\* icon and a report date 15 minutes old: OFFLINE, not ONLINE.
C4_Witness ==
    /\ pc = "reconciled"
    /\ HasFleetEntry(station, all_status_dict)
    /\ ~FleetApplies(station, all_status_dict)
    /\ station.status_text = PyStr(TxtRepair)
    /\ station.status_from_icon = "OFFLINE"
    /\ station.date = PyStr(D1145utc)
    /\ status = "OFFLINE"

(* ------------------------- claims on clean_data ------------------------ *)

\* The key of an input record of the model: its code without the
\* surrounding whitespace, <<>> for a record without a code.
KeyOf(r) ==
    CASE r.code \in {PyStr(CodeG1), PyStr(CodeG1Padded)} -> CodeG1
      [] r.code = PyStr(CodeG2) -> CodeG2
      [] OTHER -> <<>>

\* The dates of the model that parse, and the minute of the day each names.
Parses(d) == d.kind = "str" /\ d.val \in DedupParseable

MinuteOf(d) ==
    CASE d.val = T1000 -> 600
      [] d.val = T1100utc -> 660
      [] d.val = T1200 -> 720

\* The input records with key k whose date parses.
DatedOf(k) ==
    {i \in DOMAIN records : KeyOf(records[i]) = k /\ Parses(records[i].date)}

\* The first-seen of the records of DatedOf(k) with the latest timestamp.
FirstLatestOf(k) ==
    CHOOSE i \in DatedOf(k) :
        /\ \A j \in DatedOf(k) : MinuteOf(records[j].date) <= MinuteOf(records[i].date)
        /\ \A j \in DatedOf(k) :
              j < i => MinuteOf(records[j].date) < MinuteOf(records[i].date)

InputKeys == {KeyOf(records[i]) : i \in DOMAIN records} \ {<<>>}

\* clean_data is over: it returned or it raised.
CleanOver == pc \in {"cleaned", "raised"}

\* C5: for every input, clean_data returns a list with exactly one record
\* for each distinct non-empty stripped station code of the input, and no
\* two records of the list share a station_code.
C5_DedupUniqueness ==
    CleanOver =>
        /\ pc = "cleaned"
        /\ {cleaned[i].station_code.val : i \in DOMAIN cleaned} = InputKeys
        /\ \A i, j \in DOMAIN cleaned :
              cleaned[i].station_code = cleaned[j].station_code => i = j

\* C6: for every input whose records share one station code and whose dates
\* all parse, clean_data returns the record with the latest timestamp, the
\* first-seen of those that tie for it.
C6_DedupKeepsLatest ==
    (/\ CleanOver
     /\ records # <<>>
     /\ \A i \in DOMAIN records : KeyOf(records[i]) = CodeG1
     /\ \A i \in DOMAIN records : Parses(records[i].date))
        => /\ pc = "cleaned"
           /\ Len(cleaned) = 1
           /\ cleaned[1].name = PyInt(FirstLatestOf(CodeG1))

\* The next record of the loop has a code that is already stored, and its
\* date or the stored record's date does not parse.
UnparsedArrival ==
    /\ pc = "clean"
    /\ idx < Len(records)
    /\ KeyOf(records[idx + 1]) # <<>>
    /\ \E j \in DOMAIN out :
          /\ out[j].station_code.val = KeyOf(records[idx + 1])
          /\ ~Parses(records[idx + 1].date) \/ ~Parses(out[j].date)

\* C7: when a record arrives for a code that has a stored record, and the
\* date of either does not parse, the stored record is kept, the new one is
\* discarded and no exception is raised.
C7_KeepFirstOnUnparseable ==
    [][UnparsedArrival => (out' = out /\ err' = "none" /\ pc' = "clean")]_vars

\* C7 witness: a first record with an unparseable date and a second one of
\* the same code with a date that parses; the first is the one returned.
C7_Witness ==
    /\ pc = "cleaned"
    /\ Len(records) = 2
    /\ KeyOf(records[1]) = KeyOf(records[2])
    /\ records[1].date = PyStr(DIso)
    /\ records[2].date = PyStr(T1200)
    /\ Len(cleaned) = 1
    /\ cleaned[1].name = PyInt(1)
    /\ cleaned[1].date = PyStr(DIso)

\* C8: for every station code with at least one input record whose date
\* parses, the record clean_data returns for the code is the one with the
\* latest parseable timestamp among the code's records, the first-seen of
\* those that tie.
C8_LatestParseable ==
    CleanOver =>
        /\ pc = "cleaned"
        /\ \A k \in InputKeys :
              DatedOf(k) # {} =>
                 \E j \in DOMAIN cleaned :
                    /\ cleaned[j].station_code.val = k
                    /\ cleaned[j].name = PyInt(FirstLatestOf(k))

(* ------------------------- claims on the pipeline ---------------------- *)

\* C9: for every page and every fleet table, parse_setmap_from_html followed
\* by clean_data raises no exception: neither function ends with one.
C9_NoFatalError == pc # "raised" /\ err = "none"

\* The page of the end-to-end scenario: the header call, then one data call
\* with the blob, the icon and the ninth argument given.
ScenarioPage(blob, icon, code) ==
    HeaderCall \o <<" ","v","a","r"," ","m",";"," ">> \o DataCall(blob, icon, code)

\* What the blobs and icons of the scenario say, read off their text.
ScenarioCode(blob) ==
    CASE blob = BlobG2002 -> <<"G","2","0","0","2">>
      [] blob = BlobG1001utc -> <<"G","1","0","0","1">>
      [] blob = BlobG2002late -> <<"G","2","0","0","2">>

ScenarioRain(blob) ==
    CASE blob = BlobG2002 -> PyFloat(12, -1)
      [] blob = BlobG1001utc -> PyFloat(125, -1)
      [] blob = BlobG2002late -> PyFloat(0, 0)

ScenarioStatus(icon) ==
    CASE icon = IconGreen -> "ONLINE"
      [] icon = IconRed -> "OFFLINE"
      [] icon = IconRepair -> "REPAIR"

\* C10: for a page with a header call followed by one data call whose blob
\* has a Code, a Rain and a parseable Date line and no Status line, whose
\* icon gives a definite status, and with an empty fleet table, the pipeline
\* raises nothing and returns exactly one record, with the blob's code as
\* station_code, the number of the rain text as rain_mm and the icon's
\* status as status.
C10_EndToEnd ==
    \A blob \in FullBlobs, icon \in DefiniteIcons, code \in CodeArgs :
        (html = ScenarioPage(blob, icon, code) /\ all_status_dict = PyMap(<<>>))
            => /\ pc # "raised"
               /\ pc = "cleaned" =>
                     /\ Len(cleaned) = 1
                     /\ cleaned[1].station_code = PyStr(ScenarioCode(blob))
                     /\ cleaned[1].rain_mm = ScenarioRain(blob)
                     /\ cleaned[1].status = ScenarioStatus(icon)

\* C10 witness: the scenario of the specification has run to its end.
C10_Witness ==
    /\ pc = "cleaned"
    /\ html = ScenarioPage(BlobG2002, IconGreen, ArgG2002)
    /\ all_status_dict = PyMap(<<>>)
    /\ Len(cleaned) = 1
    /\ cleaned[1].station_code = PyStr(<<"G","2","0","0","2">>)
    /\ cleaned[1].rain_mm = PyFloat(12, -1)
    /\ cleaned[1].status = "ONLINE"

(* ------------------------- claims on the extractor --------------------- *)

\* The number of calls re.finditer matches in the page: every SetMap of the
\* pages of the model is followed by its parenthesis.
MatchedCalls == Cardinality({p \in 0..Len(html) : StartsWithAt(html, SetMapWord, p)})

\* parse_setmap_from_html is over: it returned, or it raised (clean_data
\* has then looked at no record).
ParseRaised == pc = "raised" /\ idx = 0

ParseOver == pc \in {"clean", "cleaned", "raised"}

\* C11: when the first matched call of the page is the header call (its
\* first value is 'lat'), the extractor returns a list without that call,
\* one record shorter than the number of matched calls.
C11_HeaderSkip ==
    (ParseOver /\ StartsWith(html, HeaderCall))
        => /\ ~ParseRaised
           /\ Len(records) = MatchedCalls - 1
           /\ \A i \in DOMAIN records : records[i].lat # PyStr(<<"l","a","t">>)

(* ------------------------- claims on the tokenizer --------------------- *)

\* The state and the brace depth the loop of _tokenize_args is in after the
\* first p characters of s, read off the loop one character at a time.
RECURSIVE LoopState(_, _)
LoopAfter(before, c, escaped) ==
    CASE before.state = "none" /\ c \in {"'", "\""} -> [state |-> c, depth |-> before.depth]
      [] before.state = "none" /\ c = "{" -> [state |-> "{", depth |-> 1]
      [] before.state = "none" -> before
      [] before.state \in {"'", "\""} ->
            IF c = before.state /\ ~escaped THEN [state |-> "none", depth |-> before.depth]
            ELSE before
      [] OTHER ->
            IF before.depth + (IF c = "{" THEN 1 ELSE IF c = "}" THEN -1 ELSE 0) = 0
            THEN [state |-> "none", depth |-> 0]
            ELSE [state |-> "{",
                  depth |-> before.depth + (IF c = "{" THEN 1 ELSE IF c = "}" THEN -1 ELSE 0)]

LoopState(s, p) ==
    IF p = 0 THEN [state |-> "none", depth |-> 0]
    ELSE LoopAfter(LoopState(s, p - 1), s[p], p > 1 /\ s[p - 1] = "\\")

\* The comma s[p] is met outside any literal.
SplitsAt(s, p) == s[p] = "," /\ LoopState(s, p - 1).state = "none"

\* The comma s[p] is met inside a quoted string, or with brace_depth > 0.
InsideAt(s, p) ==
    /\ s[p] = ","
    /\ \/ LoopState(s, p - 1).state \in {"'", "\""}
       \/ LoopState(s, p - 1).state = "{" /\ LoopState(s, p - 1).depth > 0

\* The tokens of s when it is cut at the commas of the set cuts and at no
\* other place.
TokensCutAt(s, cuts) == StrippedNonEmpty(Fields(s, SortedSeq(cuts)))

\* C12: _tokenize_args ends a token at each comma met outside any literal
\* and at no other character; a comma inside a quoted string or inside
\* braces, nested ones too, stays in its token; "'a,b', {x:1,y:2}, 3" gives
\* the three tokens 'a,b', {x:1,y:2} and 3.
C12_TokenizerSplits ==
    pc = "tokenized"
        => /\ result = TokensCutAt(arg, {p \in DOMAIN arg : SplitsAt(arg, p)})
           /\ \A p \in DOMAIN arg : arg[p] = "," => (SplitsAt(arg, p) <=> ~InsideAt(arg, p))
           /\ arg = ExampleArgs => result = <<<<"'","a",",","b","'">>, <<"{","x",":","1",",","y",":","2","}">>, <<"3">>>>

\* The text of the example is tokenized: commas inside a quoted string, inside
\* braces and outside any literal.
C12_Witness ==
    /\ pc = "tokenized"
    /\ arg = ExampleArgs
    /\ Len(result) = 3
    /\ \E p, q \in DOMAIN arg : SplitsAt(arg, p) /\ InsideAt(arg, q)

(* ------------------------- claims on the coercion ---------------------- *)

\* The token starts and ends with the same quote character.
QuoteDelimited(tok) ==
    tok # <<>> /\ tok[1] \in {"'", "\""} /\ tok[Len(tok)] = tok[1]

BraceDelimited(tok) == tok # <<>> /\ tok[1] = "{" /\ tok[Len(tok)] = "}"

\* C13: the extractor coerces a quote-delimited token to the string between
\* its delimiters, escaped quotes unescaped, and never to a number or to a
\* mapping.
C13_QuotedIsString ==
    (pc = "coerced" /\ QuoteDelimited(arg)) => result = PyStr(Unquote(arg))

\* An integer literal: digits, with an optional leading sign.
IntLiteral(tok) ==
    /\ tok # <<>>
    /\ IF tok[1] \in {"+", "-"} THEN Len(tok) > 1 /\ AllDigits(Tail(tok))
       ELSE AllDigits(tok)

IntLiteralVal(tok) ==
    IF tok[1] = "-" THEN 0 - DigitsVal(Tail(tok))
    ELSE IF tok[1] = "+" THEN DigitsVal(Tail(tok))
    ELSE DigitsVal(tok)

\* C14: a token that is neither quote- nor brace-delimited becomes an int
\* when it is an integer literal, else a float when float() reads it, and is
\* left unchanged otherwise.
C14_BareCoercion ==
    (pc = "coerced" /\ ~QuoteDelimited(arg) /\ ~BraceDelimited(arg))
        => result = IF IntLiteral(arg) THEN PyInt(IntLiteralVal(arg))
                    ELSE FloatOr(Float(arg), arg)

(* ------------------------- claims on the icon classifier --------------- *)

\* The filename holds raingauge, one of the separators, and a digit.
NumberedGauge(name, separators) ==
    \E sep \in separators, d \in DOMAIN name :
        /\ IsDigit(name[d])
        /\ d > 10
        /\ SubSeq(name, d - 10, d - 1) = <<"r","a","i","n","g","a","u","g","e">> \o <<sep>>

\* The group a keyword of which the filename holds, the first one in the
\* order of the chain; 0 when it holds no keyword.
HoldsGroup(name, g) == \E k \in IconGroups[g].keywords : Contains(name, k)

FirstGroup(name) ==
    IF \E g \in DOMAIN IconGroups : HoldsGroup(name, g)
    THEN CHOOSE g \in DOMAIN IconGroups :
            HoldsGroup(name, g) /\ \A h \in 1..(g - 1) : ~HoldsGroup(name, h)
    ELSE 0

StatusOfGroup(g) == IF g = 0 THEN "UNKNOWN" ELSE IconGroups[g].status

\* What the claim promises for a filename, the numbered pattern being
\* raingauge, one of the separators, digits.
Classified(name, separators) ==
    IF NumberedGauge(Lower(name), separators) THEN "UNKNOWN"
    ELSE StatusOfGroup(FirstGroup(Lower(name)))

\* C15, as the spec states it: UNKNOWN for a filename that holds
\* raingauge-<digits>; for any other filename the first group with a keyword
\* in the filename decides, and UNKNOWN when there is none.
C15_IconClassifierHyphen ==
    pc = "classified" => status = Classified(arg, {"-"})

\* C15, amended: the numbered pattern is raingauge, a hyphen or an
\* underscore, digits; a filename that holds it is UNKNOWN whatever keyword
\* it holds, and for any other filename the first group with a keyword in
\* the lower-cased filename decides, UNKNOWN when there is none.
C15_IconClassifier ==
    pc = "classified" => status = Classified(arg, {"-", "_"})

\* A numbered gauge icon that holds a keyword is classified UNKNOWN.
C15_Witness ==
    /\ pc = "classified"
    /\ arg = <<"r","a","i","n","g","a","u","g","e","-","1","2","-","o","n","l","i","n","e",".","p","n","g">>
    /\ status = "UNKNOWN"

(* ------------------------- claims on records without a code ------------ *)

\* The matches of SetMap\s*\( in the page, by the index they start at.
CallStarts(h) == {p \in 0..Len(h) : CallEnd(h, p) >= 0}

\* The matched calls whose argument list is not empty.
NonEmptyCalls(h) == {p \in CallStarts(h) : Inner(h, CallEnd(h, p)) # <<>>}

\* The call that starts at p is the first one with arguments, and its first
\* value is 'lat'.
HeaderAt(h, p) ==
    /\ \A q \in NonEmptyCalls(h) : p <= q
    /\ IsHeader(ParsedArgs(_tokenize_args(Inner(h, CallEnd(h, p)))), 0)

\* The calls the extractor retains: those with arguments, the header apart.
RetainedCalls(h) == {p \in NonEmptyCalls(h) : ~HeaderAt(h, p)}

\* parse_setmap_from_html has returned its list.
ParseReturned == pc \in {"clean", "cleaned"} \/ (pc = "raised" /\ idx > 0)

\* The record has no resolvable station code: None, empty or whitespace.
CodeLess(r) == CodeOrEmpty(r).kind = "str" /\ Strip(CodeOrEmpty(r).val) = <<>>

CodesOf(recs) == {Strip(CodeOrEmpty(recs[i]).val) : i \in {j \in DOMAIN recs : ~CodeLess(recs[j])}}

\* C16: the list parse_setmap_from_html returns holds one record, with a
\* reconciled status, for each retained call, those without a station code
\* too; the list clean_data returns holds no record with an empty
\* station_code, and holds every code of the records that do have one.
C16_CodelessDroppedAtDedup ==
    /\ ParseReturned
          => /\ Len(records) = Cardinality(RetainedCalls(html))
             /\ \A i \in DOMAIN records : records[i].status \in Statuses
    /\ pc = "cleaned"
          => /\ \A j \in DOMAIN cleaned :
                   /\ cleaned[j].station_code.kind = "str"
                   /\ cleaned[j].station_code.val # <<>>
                   /\ Strip(cleaned[j].station_code.val) = cleaned[j].station_code.val
             /\ {cleaned[j].station_code.val : j \in DOMAIN cleaned} = CodesOf(records)

\* A page gave a record with a code and a record without one, and
\* clean_data returned the first alone.
C16_Witness ==
    /\ pc = "cleaned"
    /\ \E i \in DOMAIN records : CodeLess(records[i]) /\ records[i].status \in Statuses
    /\ Len(cleaned) = 1
    /\ Len(records) = 2

(* ------------------------- claims on malformed calls ------------------- *)

\* The call that starts at p has its closing parenthesis in the page.
Balanced(h, p) ==
    \E j \in CallEnd(h, p)..(Len(h) - 1) : Closes(h, CallEnd(h, p), j)

\* C17: a call whose parentheses are not balanced before the end of the page
\* adds no record to the list parse_setmap_from_html returns, and every
\* other retained call adds its record.
C17_UnbalancedSkipped ==
    ParseReturned
        => Len(records) = Cardinality({p \in RetainedCalls(html) : Balanced(html, p)})

(* ------------------------- claims on _parse_options -------------------- *)

\* The pairs of a brace-delimited token whose body is a flat list: the
\* pieces of the body between its commas.
PairsOf(tok) ==
    Fields(Slice(tok, 1, Len(tok) - 1),
           SortedSeq({p \in 1..(Len(tok) - 2) : tok[p + 1] = ","}))

\* The key of a pair, stripped of spaces and of surrounding quotes, and its
\* value, numerically coerced.
PairKey(pair) ==
    StripChars(Strip(SubSeq(pair, 1, FirstOf(pair, {":"}) - 1)), {"'", "\""})

PairValue(pair) ==
    _try_num(Strip(SubSeq(pair, FirstOf(pair, {":"}) + 1, Len(pair))))

DistinctKeys(pairs) ==
    \A i, j \in DOMAIN pairs : PairKey(pairs[i]) = PairKey(pairs[j]) => i = j

PairsMap(pairs) ==
    [k \in {PairKey(pairs[i]) : i \in DOMAIN pairs} |->
        PairValue(pairs[CHOOSE i \in DOMAIN pairs : PairKey(pairs[i]) = k])]

\* C18: for a brace-delimited token whose body is a flat list of n >= 1
\* key:value pairs with n different keys, _parse_options returns the mapping
\* with exactly those n keys, each stripped of its quotes and mapped to its
\* own coerced value.
C18_OptionsMapping ==
    (pc = "parsed" /\ DistinctKeys(PairsOf(arg)))
        => result = PyMap(PairsMap(PairsOf(arg)))

(* ------------------------- claims on the inputs ------------------------ *)

\* C19: no step of parse_setmap_from_html, of determine_final_status within
\* it, or of clean_data changes the fleet-status mapping, and no step of
\* clean_data changes a record of its input list.
C19_ReadOnlyInputs ==
    [][/\ all_status_dict' = all_status_dict
       /\ pc = "clean" => records' = records]_vars

\* clean_data returned a record it built, other than every input record,
\* from a page parsed with a fleet table that decided a status.
C19_Witness ==
    /\ pc = "cleaned"
    /\ Truthy(all_status_dict)
    /\ \E i \in DOMAIN records : records[i].status = "TIMEOUT"
    /\ \E j \in DOMAIN cleaned : \A i \in DOMAIN records : cleaned[j] # records[i]

(* ------------------------- claims on the date formats ------------------ *)

UtcSuffix == <<" ","U","T","C">>

\* The same date in the other accepted format: without the suffix when it
\* has it, with it when it has none.
OtherFormat(d) ==
    IF EndsWith(d, UtcSuffix) THEN SubSeq(d, 1, Len(d) - Len(UtcSuffix))
    ELSE d \o UtcSuffix

\* C20: a date reads as the same instant with the ' UTC' suffix and without
\* it; for two records of one code whose dates both parse, in either format,
\* clean_data raises nothing and returns the strictly later one, the first
\* when neither is later.
C20_UtcInstants ==
    /\ \A i \in DOMAIN records :
          (CleanOver /\ Parses(records[i].date))
             => _parse_date(records[i].date)
                  = _parse_date(PyStr(OtherFormat(records[i].date.val)))
    /\ (/\ CleanOver
        /\ Len(records) = 2
        /\ KeyOf(records[1]) # <<>>
        /\ KeyOf(records[1]) = KeyOf(records[2])
        /\ Parses(records[1].date)
        /\ Parses(records[2].date))
          => /\ pc = "cleaned"
             /\ Len(cleaned) = 1
             /\ cleaned[1].name =
                  PyInt(IF MinuteOf(records[1].date) < MinuteOf(records[2].date)
                        THEN 2 ELSE 1)

(* ------------------------- claims on the header call ------------------- *)

\* The calls with arguments that gave no record.
Discarded == Cardinality(NonEmptyCalls(html)) - Len(records)

\* The first match of the page, with or without arguments.
FirstMatch(h) == CHOOSE p \in CallStarts(h) : \A q \in CallStarts(h) : p <= q

\* C21: at most one call with arguments is discarded, and when one is, no
\* other call, with or without arguments, is matched before the header call:
\* the first match of the page has arguments, the first of them 'lat'.
C21_OnlyFirstMatchIsHeader ==
    ParseReturned
        => /\ Discarded \in {0, 1}
           /\ Discarded = 1
                 => /\ FirstMatch(html) \in NonEmptyCalls(html)
                    /\ HeaderAt(html, FirstMatch(html))

(* ------------------------- claims on escaped quotes -------------------- *)

\* For a text that opens with a quote: the place of the quote that closes
\* the string, the first one like the opening quote with no backslash just
\* before it; 0 when the string is never closed.
ClosingQuote(s) ==
    IF \E p \in 2..Len(s) : s[p] = s[1] /\ s[p - 1] # "\\"
    THEN CHOOSE p \in 2..Len(s) :
            /\ s[p] = s[1] /\ s[p - 1] # "\\"
            /\ \A q \in 2..(p - 1) : ~(s[q] = s[1] /\ s[q - 1] # "\\")
    ELSE 0

OpensWithQuote(s) == s # <<>> /\ s[1] \in {"'", "\""}

\* C22: inside a quoted string a quote like the opening one closes the
\* string if and only if the character before it is no backslash: the text
\* from the opening quote to that quote, escaped quotes and commas included,
\* lies in the first token, and the whole text is one token when no such
\* quote comes.
C22_EscapedQuote ==
    (pc = "tokenized" /\ OpensWithQuote(arg))
        => /\ Len(result) >= 1
           /\ IF ClosingQuote(arg) = 0 THEN result = <<Strip(arg)>>
              ELSE /\ Len(result[1]) >= ClosingQuote(arg)
                   /\ SubSeq(result[1], 1, ClosingQuote(arg))
                        = SubSeq(arg, 1, ClosingQuote(arg))
                   /\ (Len(arg) > ClosingQuote(arg) /\ arg[ClosingQuote(arg) + 1] = ",")
                         => Len(result[1]) = ClosingQuote(arg)

\* An escaped quote, a comma, and then the closing quote: one token.
C22_Witness ==
    /\ pc = "tokenized"
    /\ arg = <<"'","\\","'",",","'">>
    /\ ClosingQuote(arg) = 5
    /\ result = <<arg>>

(* ------------------------- claims on the tokenizer loop ---------------- *)

\* The literal that is open at the end of the text opened at s[p].
OpenedAt(s, p) ==
    /\ LoopState(s, p - 1).state = "none"
    /\ \A q \in p..Len(s) : LoopState(s, q).state # "none"

\* The text after the last comma met outside any literal.
AfterLastSplit(s) ==
    IF \E p \in DOMAIN s : SplitsAt(s, p)
    THEN SubSeq(s, 1 + CHOOSE p \in DOMAIN s :
                        SplitsAt(s, p) /\ \A q \in (p + 1)..Len(s) : ~SplitsAt(s, q),
                Len(s))
    ELSE s

\* _tokenize_args returned: every character was examined, nothing was
\* raised, and when a literal is open at the end of the text, the text from
\* the last comma outside any literal to the end, trimmed, is the last token.
TokenizerReturned ==
    pc = "tokenized"
        => /\ locals.i = Len(arg)
           /\ err = "none"
           /\ result = _tokenize_args(arg)
           /\ \A p \in DOMAIN arg :
                 OpenedAt(arg, p)
                    => /\ result # <<>>
                       /\ result[Len(result)] = Strip(AfterLastSplit(arg))
                       /\ Len(result[Len(result)]) >= Len(Strip(SubSeq(arg, p, Len(arg))))

\* C23: every pass of the loop of _tokenize_args examines one character and
\* moves on to the next, the loop ends and the function returns without an
\* error, and a literal that is never closed takes the rest of the text,
\* commas included, into the last token.
C23_TokenizerTotal ==
    /\ [][pc' = "loop" => locals'.i = locals.i + 1]_vars
    /\ []TokenizerReturned
    /\ <>(pc = "tokenized")

\* A brace literal that is never closed, with a comma in it.
C23_Witness ==
    /\ pc = "tokenized"
    /\ arg = <<"a",",","{",",">>
    /\ locals.state = "{"
    /\ result = <<<<"a">>, <<"{",",">>>>

(* ------------------------- C24 ----------------------------------------- *)

ImageGroups ==
    << [status |-> "ONLINE", keywords |-> {<<"o","n","l","i","n","e">>, <<"g","r","e","e","n">>, <<"n","o","r","m","a","l">>}],
       [status |-> "OFFLINE", keywords |-> {<<"o","f","f","l","i","n","e">>, <<"r","e","d">>}],
       [status |-> "TIMEOUT", keywords |-> {<<"t","i","m","e","o","u","t">>, <<"y","e","l","l","o","w">>, <<"w","a","r","n","i","n","g">>}],
       [status |-> "DISCONNECT", keywords |-> {<<"d","i","s","c","o","n","n","e","c","t">>, <<"g","r","e","y">>, <<"g","r","a","y">>}],
       [status |-> "REPAIR", keywords |-> {<<"r","e","p","a","i","r">>, <<"m","a","i","n","t","e","n","a","n","c","e">>}] >>

HoldsImageGroup(t, g) == \E k \in ImageGroups[g].keywords : Contains(t, k)

\* What the claim promises of the status s for the text t the keywords are
\* looked up in: the first group a keyword of which t holds decides.
FirstImageGroupDecides(t, s) ==
    \A g \in DOMAIN ImageGroups :
        HoldsImageGroup(t, g) /\ (\A h \in 1..(g - 1) : ~HoldsImageGroup(t, h))
            => s = ImageGroups[g].status

BothEmpty(pair) == ~Truthy(pair[1]) /\ ~Truthy(pair[2])

\* C24, as the spec states it: UNKNOWN when src and alt are both empty;
\* otherwise the first keyword group found in the lower-cased concatenation
\* of src and alt decides; the result is always one of the six statuses.
C24_ImageClassifierConcat ==
    pc = "classified" =>
        /\ status \in Statuses
        /\ BothEmpty(arg) => status = "UNKNOWN"
        /\ ~BothEmpty(arg) =>
              FirstImageGroupDecides(Lower(StrOf(arg[1]) \o StrOf(arg[2])), status)

\* C24, amended: UNKNOWN when src and alt are both empty; otherwise the
\* first keyword group found in the lower-cased text made of src, one space
\* and alt decides, so that no keyword is found across the boundary of src
\* and alt; the result is always one of the six statuses.
C24_ImageClassifier ==
    pc = "classified" =>
        /\ status \in Statuses
        /\ BothEmpty(arg) => status = "UNKNOWN"
        /\ ~BothEmpty(arg) =>
              FirstImageGroupDecides(
                  Lower(StrOf(arg[1]) \o <<" ">> \o StrOf(arg[2])), status)

\* A source with green and an alt with red has been classified ONLINE.
C24_Witness ==
    /\ pc = "classified"
    /\ arg = <<PyStr(<<"i","m","g","/","g","r","e","e","n",".","p","n","g">>), PyStr(<<"R","e","d">>)>>
    /\ status = "ONLINE"

(* ------------------------- C30 ----------------------------------------- *)

\* The classifier without the status[_-](\w+) fallback.
WithoutFallback(pair) ==
    IF BothEmpty(pair) \/ ImageKeywordStatus(Combined(pair[1], pair[2])) = NoStatus
    THEN "UNKNOWN"
    ELSE ImageKeywordStatus(Combined(pair[1], pair[2]))

AsciiText(v) == v.kind = "str" => \A k \in DOMAIN v.val : v.val[k] \notin {DotlessI, LongS}

FallbackMatches(pair) ==
    \E p \in 0..Len(Combined(pair[1], pair[2])) :
        StatusMatchAt(Combined(pair[1], pair[2]), p)

\* C30, as the spec states it: for every src and alt the classifier returns
\* what it returns without the status[_-](\w+) fallback.
C30_FallbackRedundantAnyText ==
    pc = "classified" => status = WithoutFallback(arg)

\* C30, amended: for every src and alt made of ASCII characters the
\* classifier returns what it returns without the status[_-](\w+) fallback.
C30_FallbackRedundant ==
    pc = "classified" /\ AsciiText(arg[1]) /\ AsciiText(arg[2])
        => status = WithoutFallback(arg)

\* An ASCII source the pattern matches with a known status word, classified
\* with that status.
C30_Witness ==
    /\ pc = "classified"
    /\ arg = <<PyStr(<<"S","t","a","t","u","s","-","R","E","P","A","I","R">>), PyNone>>
    /\ FallbackMatches(arg)
    /\ KnownWord(Upper(CapturedWord(Combined(arg[1], arg[2])))) = "REPAIR"
    /\ status = "REPAIR"

(* ------------------------- C25 ----------------------------------------- *)

\* The label k occurs in the line ln at the 0-based index p, in any letter
\* case, followed by a colon at the 1-based index c, with nothing but
\* whitespace between the two, and by a value.
LabelOccurs(ln, k, p, c) ==
    /\ p + Len(k) < c
    /\ c < Len(ln)
    /\ ln[c] = ":"
    /\ \A i \in 1..Len(k) : Lower(<<ln[p + i]>>) = Lower(<<k[i]>>)
    /\ \A i \in (p + Len(k) + 1)..(c - 1) : IsSpace(ln[i])
    /\ \E i \in (c + 1)..Len(ln) : ~IsSpace(ln[i])

LineMatches(ln, k) == \E p \in 0..Len(ln), c \in 1..Len(ln) : LabelOccurs(ln, k, p, c)

\* What follows the colon of the leftmost occurrence of the label.
Remainder(ln, k) ==
    Strip(SubSeq(ln, 1 + (CHOOSE c \in 1..Len(ln) :
                            \E p \in 0..Len(ln) :
                                /\ LabelOccurs(ln, k, p, c)
                                /\ \A q \in 0..(p - 1), d \in 1..Len(ln) :
                                       ~LabelOccurs(ln, k, q, d)),
                 Len(ln)))

\* The value the claim promises for the label k over the lines of a blob.
FirstLineValue(lines, k) ==
    IF \E i \in DOMAIN lines : LineMatches(lines[i], k)
    THEN PyStr(Remainder(lines[CHOOSE i \in DOMAIN lines :
                                  /\ LineMatches(lines[i], k)
                                  /\ \A j \in 1..(i - 1) : ~LineMatches(lines[j], k)], k))
    ELSE PyNone

BlobLines == IF Truthy(arg) THEN LinesOf(TagStrip(BrSub(Unescape(arg.val)))) ELSE <<>>

\* C25: _parse_info_html returns the empty mapping for an absent or empty
\* blob; for a non-empty blob the value of a label is the remainder of the
\* first line in which the label, a colon and a value occur, in any letter
\* case, and null when there is no such line; the numeric fields are the
\* first number of that value.
C25_InfoLookup ==
    pc = "extracted" =>
        IF ~Truthy(arg) THEN DOMAIN result = {}
        ELSE /\ result.code = FirstLineValue(BlobLines, <<"C","o","d","e">>)
             /\ result.rain = FirstLineValue(BlobLines, <<"R","a","i","n">>)
             /\ result.date = FirstLineValue(BlobLines, <<"D","a","t","e">>)
             /\ result.status_text = FirstLineValue(BlobLines, <<"S","t","a","t","u","s">>)
             /\ result.temperature_c =
                    fnum(OrElse(FirstLineValue(BlobLines, <<"T","e","m","p","e","r","a","t","u","r","e">>),
                                FirstLineValue(BlobLines, <<"T","e","m","p">>)))
             /\ result.humidity_pct = fnum(FirstLineValue(BlobLines, <<"H","u","m","i","d","i","t","y">>))
             /\ result.battery_v = fnum(FirstLineValue(BlobLines, <<"B","a","t","t","e","r","y">>))

\* Two lines carry a code: the one without a value is passed over and the
\* first with a value answers, not the last.
C25_Witness ==
    /\ pc = "extracted"
    /\ arg = PyStr(<<"C","O","D","E",":">> \o <<"<","b","r",">">> \o <<"c","o","d","e"," ",":"," ","g","2">> \o <<"\n">> \o <<"C","o","d","e",":"," ","G","1">>)
    /\ result.code = PyStr(<<"g","2">>)
    /\ result.rain = PyNone

(* ------------------------- C26 ----------------------------------------- *)

\* The staleness fallback decides: no applicable fleet entry, no keyword in
\* the status text, no definite icon status.
FallbackDecides(st, d) ==
    ~FleetApplies(st, d) /\ ~HasAnyKeyword(st.status_text) /\ ~IconDefinite(st)

\* C26: for every record and every fleet table whose entries carry one of
\* the six statuses, the reconciled status is one of ONLINE, OFFLINE,
\* TIMEOUT, DISCONNECT and REPAIR, never UNKNOWN; REPAIR comes from the
\* fleet table or from the icon only; the staleness fallback yields ONLINE,
\* TIMEOUT or DISCONNECT only.
C26_NeverUnknown ==
    pc = "reconciled" =>
        /\ status \in Statuses \ {"UNKNOWN"}
        /\ status = "REPAIR" =>
              \/ /\ FleetApplies(station, all_status_dict)
                 /\ all_status_dict.val[station.station_code.val].status = "REPAIR"
              \/ /\ ~FleetApplies(station, all_status_dict)
                 /\ station.status_from_icon = "REPAIR"
        /\ FallbackDecides(station, all_status_dict)
              => status \in {"ONLINE", "TIMEOUT", "DISCONNECT"}

\* An UNKNOWN fleet entry, an UNKNOWN icon status and a text that says
\* repair: the fallback decides, on a report 30 minutes old.
C26_Witness ==
    /\ pc = "reconciled"
    /\ HasFleetEntry(station, all_status_dict)
    /\ all_status_dict.val[station.station_code.val].status = "UNKNOWN"
    /\ station.status_from_icon = "UNKNOWN"
    /\ station.status_text = PyStr(TxtRepair)
    /\ station.date = PyStr(D1130)
    /\ now = Noon
    /\ status = "ONLINE"

(* ------------------------- C27 ----------------------------------------- *)

\* The values of the i-th call the extractor retains.
RetainedArgs(h, i) ==
    ParsedArgs(_tokenize_args(Inner(h, CallEnd(h, SortedSeq(RetainedCalls(h))[i]))))

\* The value of the Code line of an info blob, None without such a line.
BlobCode(blob) == FirstLineValue(LinesOf(TagStrip(BrSub(Unescape(blob.val)))), <<"C","o","d","e">>)

\* C27: in every record parse_setmap_from_html produces, station_code
\* equals code; with a non-empty info blob (the 7th argument) code is the
\* value of the blob's Code line, null without such a line, whatever the
\* positional code (the 9th argument) is; the positional code is kept only
\* when the blob is absent or empty.
C27_BlobCodeReplaces ==
    \A i \in DOMAIN records :
        /\ records[i].station_code = records[i].code
        /\ IF Truthy(records[i].info_html)
           THEN records[i].code = BlobCode(records[i].info_html)
           ELSE records[i].code = Arg(RetainedArgs(html, i), 9)

\* A call with the blob 'Rain: 3 mm' and the positional code 'G2002' gave a
\* record without a code.
C27_Witness ==
    /\ ParseReturned
    /\ Len(records) = 1
    /\ records[1].info_html = PyStr(<<"R","a","i","n",":"," ","3"," ","m","m">>)
    /\ Arg(RetainedArgs(html, 1), 9) = PyStr(<<"G","2","0","0","2">>)
    /\ records[1].code = PyNone
    /\ records[1].station_code = PyNone

(* ------------------------- C28 ----------------------------------------- *)

\* The arguments of s: the pieces between its top-level commas.
Arguments(s) == Fields(s, SortedSeq({p \in DOMAIN s : SplitsAt(s, p)}))

Blank(a) == Strip(a) = <<>>

\* How many of the arguments before the k-th are empty or whitespace.
BlanksBefore(s, k) == Cardinality({j \in 1..(k - 1) : Blank(Arguments(s)[j])})

\* C28: _tokenize_args never emits an empty token: an argument that is
\* empty or whitespace between two top-level commas, before the first or
\* after the last one, gives no token, so there are at most as many tokens
\* as top-level commas plus one, and an argument is the token, and the
\* field of the record, of its place less the blank arguments before it.
C28_NoEmptyToken ==
    /\ \A j \in DOMAIN locals.args : locals.args[j] # <<>>
    /\ pc = "tokenized" =>
          /\ \A j \in DOMAIN result : result[j] # <<>>
          /\ Len(result) <= Cardinality({p \in DOMAIN arg : SplitsAt(arg, p)}) + 1
          /\ Len(result) = Cardinality({k \in DOMAIN Arguments(arg) :
                                           ~Blank(Arguments(arg)[k])})
          /\ \A k \in DOMAIN Arguments(arg) :
                ~Blank(Arguments(arg)[k]) =>
                    /\ result[k - BlanksBefore(arg, k)] = Strip(Arguments(arg)[k])
                    /\ Arg(ParsedArgs(result), k - BlanksBefore(arg, k))
                          = Coerce(_clean_str(Strip(Arguments(arg)[k])))

\* Of the three arguments of a,,a the second is empty: two tokens, and the
\* third argument is the second token.
C28_Witness ==
    /\ pc = "tokenized"
    /\ arg = <<"a",",",",","a">>
    /\ Len(Arguments(arg)) = 3
    /\ result = <<<<"a">>, <<"a">>>>
    /\ Arg(ParsedArgs(result), 2) = PyStr(<<"a">>)
    /\ Arg(ParsedArgs(result), 3) = PyNone

(* ------------------------- C29 ----------------------------------------- *)

\* The attempt failed in a way that is retried: a Timeout, a
\* ConnectionError, or a response with a status code of the retry set.
FailedAttempt(o) ==
    \/ o.kind = "error" /\ o.name \in {"Timeout", "ConnectionError"}
    \/ o.kind = "response" /\ o.status_code \in {500, 502, 503, 504}

AllFailed(os) == \A j \in DOMAIN os : FailedAttempt(os[j])

RetryOver == pc \in {"returned", "raised"}

\* What has been raised is the error of the attempt o.
ErrorOfAttempt(o) ==
    IF o.kind = "error" THEN err = o.name /\ result = o
    ELSE err = "HTTPError" /\ result.status_code = o.status_code

\* C29: request_with_retry always terminates, after at most max_attempts
\* requests; it returns the first response whose status code is not in the
\* retry set; after a Timeout, a ConnectionError or a retryable status it
\* sleeps and retries only while attempts remain; when all max_attempts
\* attempts fail it raises the error of the last one, and there is no sleep
\* after the final attempt.
C29_RetryTerminates ==
    /\ <>RetryOver
    /\ [](/\ Len(locals.requests) <= locals.max_attempts
          /\ Len(locals.sleeps) <= Len(locals.requests)
          /\ RetryOver /\ locals.requests # <<>>
                => Len(locals.sleeps) = Len(locals.requests) - 1)
    /\ [](pc = "returned"
            => /\ result = locals.requests[Len(locals.requests)]
               /\ result.kind = "response"
               /\ ~FailedAttempt(result)
               /\ AllFailed(SubSeq(locals.requests, 1, Len(locals.requests) - 1)))
    /\ [](pc = "raised" /\ locals.requests # <<>> /\ AllFailed(locals.requests)
            => /\ Len(locals.requests) = locals.max_attempts
               /\ ErrorOfAttempt(locals.requests[Len(locals.requests)]))
    /\ [][Len(locals'.sleeps) > Len(locals.sleeps)
            => /\ FailedAttempt(locals'.requests[Len(locals'.requests)])
               /\ Len(locals'.requests) < locals.max_attempts
               /\ pc' = "attempt"]_vars

\* Three attempts out of three failed, with two sleeps in between, and the
\* error of the third is raised.
C29_Witness ==
    /\ pc = "raised"
    /\ locals.max_attempts = 3
    /\ locals.requests = <<Raised("Timeout"), Response(503), Response(500)>>
    /\ locals.sleeps = <<1, 2>>
    /\ err = "HTTPError"
    /\ result.status_code = 500
====
